---- MODULE Spec2Model ----
(***************************************************************************)
(* Model of the SQLite-backed metadata catalog (SqliteMetaImpl): the       *)
(* META_TABLES rows (collections and partitions), the META_TABLEFILES rows *)
(* (segment files), the id generator and the clock, with one action per    *)
(* catalog operation.                                                      *)
(***************************************************************************)
EXTENDS Integers, Sequences, FiniteSets, TLC

\* ---------------------------------------------------------------- bounds
MaxTables == 3       \* rows held by META_TABLES at one time
MaxFileRowId == 2    \* largest primary key handed out in META_TABLEFILES
MaxGenId == 2        \* last number drawn from the id generator
MaxGenTableId == 1   \* last number the id generator gives to a collection
MaxTicks == 1        \* seconds the clock advances
MaxTTL == 1          \* largest ttl (seconds) given to CleanUpFilesWithTTL
MaxBatch == 2        \* longest batch given to UpdateTableFiles
NumThreads == 2      \* concurrent CreatePartition callers
MaxLsn == 2          \* largest lsn a caller passes
NumVectors == 3      \* nb: vectors of the base dataset given to an index
MaxDim == 16         \* largest dimension given to the scalar quantizer

\* ------------------------------------------------------------- constants
US_PS == 1000000     \* microseconds per second
DAY == 86400         \* seconds per day
G == 1073741824      \* bytes per unit of the disk criterion

DB_SUCCESS == "DB_SUCCESS"
DB_ERROR == "DB_ERROR"
DB_META_TRANSACTION_FAILED == "DB_META_TRANSACTION_FAILED"
DB_NOT_FOUND == "DB_NOT_FOUND"
DB_ALREADY_EXIST == "DB_ALREADY_EXIST"
DB_INCOMPATIB_META == "DB_INCOMPATIB_META"

\* TableSchema::state_
NORMAL == "NORMAL"
TO_DELETE == "TO_DELETE"

\* TableFileSchema::file_type_
FileTypes == {"NEW", "RAW", "TO_INDEX", "INDEX", "TO_DELETE", "NEW_MERGE", "NEW_INDEX", "BACKUP"}
\* the kinds the callers of UpdateTableFiles write
BatchTypes == {"RAW", "TO_DELETE"}
\* the kind the caller of CreateTableFile asks for
CreatedTypes == {"NEW"}
\* the kinds the callers of UpdateTableFile write
WrittenTypes == FileTypes \ {"NEW_MERGE", "NEW_INDEX"}

\* EngineType: the flat index of float vectors is the default
DEFAULT_ENGINE_TYPE == "FAISS_IDMAP"
FAISS_BIN_IDMAP == "FAISS_BIN_IDMAP"

\* engine::utils::IsBinaryMetricType
IsBinaryMetricType(metric_type) == metric_type \in {"HAMMING", "JACCARD", "TANIMOTO"}

\* ---------------------------------------------------------------- inputs
UserTableIds == {"a", "b"}
\* what the caller of CreateTable puts in the schema besides the id
Dimension == 128
IndexFileSize == 268435456
MetricTypes == {"L2", "HAMMING"}
\* the indexes the caller of UpdateTableIndex asks for; extra_params_ is a json object
TableIndexes == {[engine_type_ |-> "FAISS_IVFFLAT", extra_params_ |-> [nlist |-> 1], metric_type_ |-> "L2"],
                 [engine_type_ |-> "FAISS_BIN_IVFFLAT", extra_params_ |-> [nlist |-> 1],
                  metric_type_ |-> "HAMMING"]}
\* the kinds the callers of CreateTableFile ask for: a flushed, a merged, an indexed file
CreatedKinds == {"NEW", "NEW_MERGE", "NEW_INDEX"}
\* the segment a caller of CreateTableFile names: none, or the one of an existing file
SegmentIds == {"", "1"}
\* meta::BUILD_INDEX_THRESHOLD: the rows from which a raw file is given an index
BUILD_INDEX_THRESHOLD == 4096
\* the row counts a caller of UpdateTableFile reports
RowCounts == {BUILD_INDEX_THRESHOLD - 1, BUILD_INDEX_THRESHOLD}
\* the sizes a caller of UpdateTableFile reports: under, at and over index_file_size_
FileSizes == {IndexFileSize \div 4, IndexFileSize \div 2, IndexFileSize, 5 * (IndexFileSize \div 2)}
\* the kinds a file has around the building and the dropping of an index
IndexedTypes == {"RAW", "TO_INDEX", "INDEX", "BACKUP"}
\* partition tags as the caller types them: sequences of characters
RawTags == {<<"p">>, <<" ", "p", " ">>, <<" ">>}
Blank == {" ", "\n", "\r", "\t"}
Threads == 1..NumThreads
StartTime == MaxTTL * US_PS

VARIABLES
    tables,   \* META_TABLES: table_id_ (UNIQUE) -> row
    files,    \* META_TABLEFILES: primary key id_ -> row
    nextId,   \* next number of SafeIDGenerator
    now,      \* utils::GetMicroSecTimeStamp()
    cp,       \* per thread: the call in flight (CreatePartition, SetGlobalLastLSN,
              \* CleanUpFilesWithTTL, a query holding files in OngoingFileChecker)
    last,     \* Status (and operation) of the call that returned last
    environment,  \* META_ENVIRONMENT: the global_lsn of each row, in rowid order (no key)
    blobs,    \* the file_id_ of the segment files on disk
    synced,   \* FALSE between drop_table and the next sync_schema
    notified_,  \* SimpleWaitNotify::notified_
    index_    \* knowhere::IDMAP: the vectors added and the blacklist set

vars == <<tables, files, nextId, now, cp, last, environment, blobs, synced, notified_, index_>>

\* ------------------------------------------------------------ row helpers
Max(S) == CHOOSE x \in S : \A y \in S : y <= x

\* INTEGER PRIMARY KEY without AUTOINCREMENT: one more than the largest rowid
NextRowId(rows) == IF DOMAIN rows = {} THEN 1 ELSE Max(DOMAIN rows) + 1

\* a new row of META_TABLES
InsertTable(rows, rec) ==
    [i \in DOMAIN rows \cup {rec.table_id_} |-> IF i = rec.table_id_ THEN rec ELSE rows[i]]

InsertRow(rows, rec) ==
    [i \in DOMAIN rows \cup {NextRowId(rows)} |-> IF i \in DOMAIN rows THEN rows[i] ELSE rec]

RemoveRows(rows, ids) == [i \in DOMAIN rows \ ids |-> rows[i]]

RECURSIVE AscendingSeq(_)
\* the rows of a select, in rowid order
AscendingSeq(S) ==
    IF S = {} THEN <<>>
    ELSE LET m == Max(S) IN Append(AscendingSeq(S \ {m}), m)

Range(s) == {s[i] : i \in DOMAIN s}

Status(code, msg) == [code |-> code, msg |-> msg]
StatusOK == Status(DB_SUCCESS, "")

HandleException(desc) == Status(DB_META_TRANSACTION_FAILED, desc)

\* SafeIDGenerator number printed into a string
NextTableId == ToString(nextId)
\* an id generator that hands out the same number again
FirstFileId == ToString(1)
NextFileId == ToString(nextId)

RECURSIVE TrimLeft(_)
TrimLeft(s) == IF s # <<>> /\ Head(s) \in Blank THEN TrimLeft(Tail(s)) ELSE s

RECURSIVE TrimRight(_)
TrimRight(s) ==
    IF s # <<>> /\ s[Len(s)] \in Blank THEN TrimRight(SubSeq(s, 1, Len(s) - 1)) ELSE s

\* " ab cd " is treated as "ab cd"
TrimStringBlank(s) == TrimRight(TrimLeft(s))

\* ------------------------------------------------------------------ reads
\* select ... where table_id_ == table_id: at most one row, table_id_ is UNIQUE
TableRowsOf(table_id) == {i \in DOMAIN tables : tables[i].table_id_ = table_id}

\* the set of the elements of a select over META_TABLES
SetOfRows(ids) == {tables[i] : i \in ids}

DescribeTable(table_id) ==
    LET groups == {i \in TableRowsOf(table_id) : tables[i].state_ # TO_DELETE}
    IN IF Cardinality(groups) = 1
       THEN [status |-> StatusOK, found |-> TRUE, schema |-> tables[CHOOSE i \in groups : TRUE]]
       ELSE [status |-> Status(DB_NOT_FOUND, "Table not found"), found |-> FALSE,
             schema |-> [table_id_ |-> table_id]]

HasTable(table_id) ==
    LET rows == {i \in TableRowsOf(table_id) : tables[i].state_ # TO_DELETE}
    IN [status |-> StatusOK, has_or_not |-> (Cardinality(rows) = 1)]

AllTables ==
    LET selected == {i \in DOMAIN tables : tables[i].state_ # TO_DELETE /\ tables[i].owner_table_ = ""}
    IN [status |-> StatusOK,
        table_schema_array |-> SetOfRows(selected)]

DescribeTableIndex(table_id) ==
    LET groups == {i \in TableRowsOf(table_id) : tables[i].state_ # TO_DELETE}
    IN IF Cardinality(groups) = 1 THEN StatusOK ELSE Status(DB_NOT_FOUND, "Table not found")

\* ShowPartitions without the state filter
ShowPartitionsAnyState(table_id) ==
    [status |-> StatusOK,
     partition_schema_array |-> SetOfRows({i \in DOMAIN tables : tables[i].owner_table_ = table_id})]

ShowPartitions(table_id) ==
    LET partitions == {i \in DOMAIN tables :
                          tables[i].owner_table_ = table_id /\ tables[i].state_ # TO_DELETE}
    IN [status |-> StatusOK,
        partition_schema_array |-> SetOfRows(partitions)]

GetPartitionName(table_id, tag) ==
    LET valid_tag == TrimStringBlank(tag)
        name == {i \in DOMAIN tables :
                    /\ tables[i].owner_table_ = table_id
                    /\ tables[i].partition_tag_ = valid_tag
                    /\ tables[i].state_ # TO_DELETE}
    IN IF name # {}
       THEN [status |-> StatusOK, partition_name |-> tables[CHOOSE i \in name : TRUE].table_id_]
       ELSE [status |-> Status(DB_NOT_FOUND, "partition not found"), partition_name |-> ""]

SearchTypes == {"RAW", "TO_INDEX", "INDEX"}

\* FilesToSearch without the DescribeTable check
FilesToSearchUnchecked(table_id, ids) ==
    LET selected == {i \in DOMAIN files :
                        /\ files[i].table_id_ = table_id
                        /\ (ids # {} => i \in ids)
                        /\ files[i].file_type_ \in SearchTypes}
    IN [status |-> StatusOK,
        files |-> [k \in 1..Cardinality(selected) |->
                      [id_ |-> AscendingSeq(selected)[k],
                       table_id_ |-> files[AscendingSeq(selected)[k]].table_id_,
                       file_type_ |-> files[AscendingSeq(selected)[k]].file_type_]]]

FilesToSearch(table_id, ids) ==
    LET describe == DescribeTable(table_id)
        selected == {i \in DOMAIN files :
                        /\ files[i].table_id_ = table_id
                        /\ (ids # {} => i \in ids)
                        /\ files[i].file_type_ \in SearchTypes}
    IN IF describe.status.code # DB_SUCCESS
       THEN [status |-> describe.status, files |-> <<>>]
       ELSE [status |-> StatusOK,
             files |-> [k \in 1..Cardinality(selected) |->
                           [id_ |-> AscendingSeq(selected)[k],
                            table_id_ |-> files[AscendingSeq(selected)[k]].table_id_,
                            file_type_ |-> files[AscendingSeq(selected)[k]].file_type_]]]

\* ------------------------------------------------------------- operations
\* CreateTable that takes a row in delete state for no row at all and writes over it
CreateTableResultOverDeleted(table_schema, throws) ==
    LET generated == (table_schema.table_id_ = "")
        table_id == IF generated THEN NextTableId ELSE table_schema.table_id_
        nid == IF generated THEN nextId + 1 ELSE nextId
        table == {i \in TableRowsOf(table_schema.table_id_) : tables[i].state_ # TO_DELETE}
    IN IF ~generated /\ Cardinality(table) = 1
       THEN [status |-> Status(DB_ALREADY_EXIST, "Table already exists"),
             tables |-> tables, nextId |-> nid]
       ELSE IF throws
            THEN [status |-> HandleException("Encounter exception when create table"),
                  tables |-> tables, nextId |-> nid]
            ELSE [status |-> StatusOK,
                  tables |-> InsertTable(tables, [table_schema EXCEPT !.table_id_ = table_id]),
                  nextId |-> nid]

\* the catalog after CreateTable(table_schema) and the Status it returns;
\* throws: the insert statement raises
CreateTableResult(table_schema, throws) ==
    LET generated == (table_schema.table_id_ = "")
        table_id == IF generated THEN NextTableId ELSE table_schema.table_id_
        nid == IF generated THEN nextId + 1 ELSE nextId
        table == TableRowsOf(table_schema.table_id_)
    IN IF ~generated /\ Cardinality(table) = 1
       THEN IF tables[CHOOSE i \in table : TRUE].state_ = TO_DELETE
            THEN [status |-> Status(DB_ERROR, "Table already exists and it is in delete state, please wait a second"),
                  tables |-> tables, nextId |-> nid]
            ELSE [status |-> Status(DB_ALREADY_EXIST, "Table already exists"),
                  tables |-> tables, nextId |-> nid]
       ELSE IF throws
            THEN [status |-> HandleException("Encounter exception when create table"),
                  tables |-> tables, nextId |-> nid]
            ELSE [status |-> StatusOK,
                  tables |-> InsertTable(tables, [table_schema EXCEPT !.table_id_ = table_id]),
                  nextId |-> nid]

CanInsertTable == Cardinality(DOMAIN tables) < MaxTables

\* flush_lsn_ of a TableSchema that no select has filled
DefaultFlushLsn == 0

\* the TableSchema a caller hands to CreateTable for a root collection
TableSchemaOf(table_id, metric_type) ==
    [table_id_ |-> table_id, state_ |-> NORMAL, owner_table_ |-> "", partition_tag_ |-> <<>>,
     dimension_ |-> Dimension, index_file_size_ |-> IndexFileSize,
     engine_type_ |-> IF IsBinaryMetricType(metric_type) THEN FAISS_BIN_IDMAP ELSE DEFAULT_ENGINE_TYPE,
     index_params_ |-> "{}", metric_type_ |-> metric_type, flag_ |-> 0, flush_lsn_ |-> 0]

CreateTableOf(table_schema, throws) ==
    LET r == CreateTableResult(table_schema, throws)
    IN /\ CanInsertTable
       /\ table_schema.table_id_ = "" => nextId <= MaxGenTableId
       /\ tables' = r.tables
       /\ nextId' = r.nextId
       /\ last' = [op |-> "CreateTable", status |-> r.status]
       /\ UNCHANGED <<files, now, cp, environment, blobs, synced, notified_, index_>>

\* CreateTable for a collection of float vectors under the L2 metric
CreateTable(table_id, throws) == CreateTableOf(TableSchemaOf(table_id, "L2"), throws)

\* DropTable that marks the files of the collection as well
DropTableWithFiles(table_id) ==
    /\ tables' = [i \in DOMAIN tables |->
                     IF tables[i].table_id_ = table_id /\ tables[i].state_ # TO_DELETE
                     THEN [tables[i] EXCEPT !.state_ = TO_DELETE]
                     ELSE tables[i]]
    /\ files' = [i \in DOMAIN files |->
                    IF files[i].table_id_ = table_id /\ files[i].file_type_ # "TO_DELETE"
                    THEN [files[i] EXCEPT !.file_type_ = "TO_DELETE", !.updated_time_ = now]
                    ELSE files[i]]
    /\ last' = [op |-> "DropTable", status |-> StatusOK]
    /\ UNCHANGED <<nextId, now, cp, environment, blobs, synced, notified_, index_>>

DropTable(table_id) ==
    /\ tables' = [i \in DOMAIN tables |->
                     IF tables[i].table_id_ = table_id /\ tables[i].state_ # TO_DELETE
                     THEN [tables[i] EXCEPT !.state_ = TO_DELETE]
                     ELSE tables[i]]
    /\ last' = [op |-> "DropTable", status |-> StatusOK]
    /\ UNCHANGED <<files, nextId, now, cp, environment, blobs, synced, notified_, index_>>

\* true when DescribeTable lets CreatePartition go on: the parent is found and is no partition
CreatePartitionDescribe(table_id) ==
    LET describe == DescribeTable(table_id)
    IN IF describe.status.code # DB_SUCCESS THEN describe.status
       ELSE IF describe.schema.owner_table_ # "" THEN Status(DB_ERROR, "Nested partition is not allowed")
       ELSE StatusOK

\* the duplicate check on the tag as typed, not trimmed
CreatePartitionDuplicateUntrimmed(table_id, tag) ==
    IF \E i \in DOMAIN tables : /\ tables[i].owner_table_ = table_id
                                /\ tables[i].partition_tag_ = tag
                                /\ tables[i].state_ # TO_DELETE
    THEN Status(DB_ERROR, "Duplicate partition is not allowed")
    ELSE StatusOK

\* not allow duplicated partition
CreatePartitionDuplicate(table_id, tag) ==
    LET valid_tag == TrimStringBlank(tag)
        exist_partition == GetPartitionName(table_id, valid_tag).partition_name
    IN IF exist_partition # "" THEN Status(DB_ERROR, "Duplicate partition is not allowed")
       ELSE StatusOK

\* the tail of CreatePartition: the schema DescribeTable read from the parent gets the
\* partition's id (generated when no name is given), owner, trimmed tag and the caller's lsn,
\* and goes to CreateTable
CreatePartitionInsert(parent, partition_name, tag, lsn, throws) ==
    LET generated == (partition_name = "")
        table_schema == [parent EXCEPT !.table_id_ = IF generated THEN NextTableId ELSE partition_name,
                                       !.owner_table_ = parent.table_id_,
                                       !.partition_tag_ = TrimStringBlank(tag),
                                       !.flag_ = 0,
                                       !.flush_lsn_ = lsn]
        r == CreateTableResult(table_schema, throws)
    IN [status |-> IF r.status.code = DB_ALREADY_EXIST
                   THEN Status(DB_ALREADY_EXIST, "Partition already exists")
                   ELSE r.status,
        tables |-> r.tables,
        nextId |-> IF generated THEN nextId + 1 ELSE nextId]

LastOfPartition(table_id, tag, status) == [op |-> "CreatePartition", status |-> status]

\* CreatePartition run from entry to return with no other call in between
CreatePartitionOf(table_id, partition_name, tag, lsn, throws) ==
    LET describe == CreatePartitionDescribe(table_id)
        duplicate == CreatePartitionDuplicate(table_id, tag)
        r == CreatePartitionInsert(DescribeTable(table_id).schema, partition_name, tag, lsn, throws)
    IN /\ \A t \in Threads : cp[t].stage = "idle"
       /\ IF describe.code # DB_SUCCESS
          THEN /\ last' = LastOfPartition(table_id, tag, describe)
               /\ UNCHANGED <<tables, nextId>>
          ELSE IF duplicate.code # DB_SUCCESS
          THEN /\ last' = LastOfPartition(table_id, tag, duplicate)
               /\ UNCHANGED <<tables, nextId>>
          ELSE /\ CanInsertTable
               /\ partition_name = "" => nextId <= MaxGenTableId
               /\ tables' = r.tables
               /\ nextId' = r.nextId
               /\ last' = LastOfPartition(table_id, tag, r.status)
       /\ UNCHANGED <<files, now, cp, environment, blobs, synced, notified_, index_>>

\* CreatePartition by a caller that passes lsn 0
CreatePartition(table_id, partition_name, tag, throws) ==
    CreatePartitionOf(table_id, partition_name, tag, 0, throws)

\* CreatePartition statement by statement, for callers that run side by side (lsn 0):
\* DescribeTable and GetPartitionName read without meta_mutex_, CreateTable locks it
CreatePartitionBegin(t, table_id, partition_name, tag) ==
    LET describe == CreatePartitionDescribe(table_id)
        table_schema == DescribeTable(table_id).schema
    IN /\ cp[t].stage = "idle"
       /\ IF describe.code # DB_SUCCESS
          THEN /\ last' = LastOfPartition(table_id, tag, describe)
               /\ UNCHANGED cp
          ELSE /\ cp' = [cp EXCEPT ![t] = [stage |-> "described", table_id |-> table_id,
                                           partition_name |-> partition_name, tag |-> tag,
                                           table_schema |-> table_schema]]
               /\ UNCHANGED last
       /\ UNCHANGED <<tables, files, nextId, now, environment, blobs, synced, notified_, index_>>

CreatePartitionCheck(t) ==
    LET duplicate == CreatePartitionDuplicate(cp[t].table_id, cp[t].tag)
    IN /\ cp[t].stage = "described"
       /\ IF duplicate.code # DB_SUCCESS
          THEN /\ last' = LastOfPartition(cp[t].table_id, cp[t].tag, duplicate)
               /\ cp' = [cp EXCEPT ![t] = [stage |-> "idle"]]
          ELSE /\ cp' = [cp EXCEPT ![t].stage = "checked"]
               /\ UNCHANGED last
       /\ UNCHANGED <<tables, files, nextId, now, environment, blobs, synced, notified_, index_>>

CreatePartitionCommit(t, throws) ==
    LET r == CreatePartitionInsert(cp[t].table_schema, cp[t].partition_name, cp[t].tag, 0, throws)
    IN /\ cp[t].stage = "checked"
       /\ CanInsertTable
       /\ cp[t].partition_name = "" => nextId <= MaxGenTableId
       /\ tables' = r.tables
       /\ nextId' = r.nextId
       /\ last' = LastOfPartition(cp[t].table_id, cp[t].tag, r.status)
       /\ cp' = [cp EXCEPT ![t] = [stage |-> "idle"]]
       /\ UNCHANGED <<files, now, environment, blobs, synced, notified_, index_>>

\* the rows after DeleteTableFiles(table_id): soft delete of the files of the collection
DeleteTableFilesResult(table_id) ==
    [i \in DOMAIN files |->
        IF files[i].table_id_ = table_id /\ files[i].file_type_ # "TO_DELETE"
        THEN [files[i] EXCEPT !.file_type_ = "TO_DELETE", !.updated_time_ = now]
        ELSE files[i]]

DeleteTableFiles(table_id) ==
    /\ files' = DeleteTableFilesResult(table_id)
    /\ last' = [op |-> "DeleteTableFiles", status |-> StatusOK]
    /\ UNCHANGED <<tables, nextId, now, cp, environment, blobs, synced, notified_, index_>>

\* the columns of a row of META_TABLEFILES
FileColumns == {"table_id_", "segment_id_", "engine_type_", "file_id_", "file_type_",
                "file_size_", "row_count_", "updated_time_", "created_on_"}

\* the columns of a TableFileSchema, as insert and update write them
Columns(file_schema) == [f \in FileColumns |-> file_schema[f]]

\* the catalog after CreateTableFile(file_schema), the Status it returns and the
\* file_schema it hands back; throws: the insert statement raises
CreateTableFileResult(file_schema, throws) ==
    LET describe == DescribeTable(file_schema.table_id_)
        table_schema == describe.schema
        filled == [table_id_ |-> file_schema.table_id_,
                   file_type_ |-> file_schema.file_type_,
                   file_id_ |-> NextFileId,
                   segment_id_ |-> IF file_schema.segment_id_ = "" THEN NextFileId
                                   ELSE file_schema.segment_id_,
                   dimension_ |-> table_schema.dimension_,
                   file_size_ |-> 0,
                   row_count_ |-> 0,
                   created_on_ |-> now,
                   updated_time_ |-> now,
                   index_file_size_ |-> table_schema.index_file_size_,
                   index_params_ |-> table_schema.index_params_,
                   engine_type_ |-> table_schema.engine_type_,
                   metric_type_ |-> table_schema.metric_type_]
    IN IF describe.status.code # DB_SUCCESS
       THEN [status |-> describe.status, files |-> files, nextId |-> nextId,
             file_schema |-> file_schema]
       ELSE IF throws
       THEN [status |-> HandleException("Encounter exception when create table file"),
             files |-> files, nextId |-> nextId + 1, file_schema |-> filled]
       ELSE [status |-> StatusOK, files |-> InsertRow(files, Columns(filled)),
             nextId |-> nextId + 1,
             file_schema |-> [id_ |-> NextRowId(files)] @@ filled]

CreateTableFileOf(file_schema, throws) ==
    LET r == CreateTableFileResult(file_schema, throws)
    IN /\ r.nextId # nextId => (NextRowId(files) <= MaxFileRowId /\ nextId <= MaxGenId)
       /\ files' = r.files
       /\ nextId' = r.nextId
       /\ last' = [op |-> "CreateTableFile", status |-> r.status]
       /\ UNCHANGED <<tables, now, cp, environment, blobs, synced, notified_, index_>>

\* CreateTableFile statement by statement, for callers that run side by side:
\* DescribeTable reads without meta_mutex_ ...
CreateTableFileDescribe(t, file_schema) ==
    LET describe == DescribeTable(file_schema.table_id_)
    IN /\ cp[t].stage = "idle"
       /\ IF describe.status.code # DB_SUCCESS
          THEN /\ last' = [op |-> "CreateTableFile", status |-> describe.status]
               /\ UNCHANGED cp
          ELSE /\ cp' = [cp EXCEPT ![t] = [stage |-> "file_described", file_schema |-> file_schema,
                                           table_schema |-> describe.schema]]
               /\ UNCHANGED last
       /\ UNCHANGED <<tables, files, nextId, now, environment, blobs, synced, notified_, index_>>

\* ... and the insert, under meta_mutex_, writes what DescribeTable read
CreateTableFileInsert(t, throws) ==
    LET file_schema == cp[t].file_schema
        table_schema == cp[t].table_schema
        filled == [table_id_ |-> file_schema.table_id_,
                   file_type_ |-> file_schema.file_type_,
                   file_id_ |-> NextFileId,
                   segment_id_ |-> IF file_schema.segment_id_ = "" THEN NextFileId
                                   ELSE file_schema.segment_id_,
                   file_size_ |-> 0,
                   row_count_ |-> 0,
                   created_on_ |-> now,
                   updated_time_ |-> now,
                   engine_type_ |-> table_schema.engine_type_]
    IN /\ cp[t].stage = "file_described"
       /\ NextRowId(files) <= MaxFileRowId /\ nextId <= MaxGenId
       /\ files' = IF throws THEN files ELSE InsertRow(files, filled)
       /\ nextId' = nextId + 1
       /\ last' = [op |-> "CreateTableFile",
                   status |-> IF throws THEN HandleException("Encounter exception when create table file")
                              ELSE StatusOK]
       /\ cp' = [cp EXCEPT ![t] = [stage |-> "idle"]]
       /\ UNCHANGED <<tables, now, environment, blobs, synced, notified_, index_>>

\* CreateTableFile for a segment whose segment_id_ the caller left empty
CreateTableFile(table_id, file_type) ==
    CreateTableFileOf([table_id_ |-> table_id, file_type_ |-> file_type, segment_id_ |-> ""], FALSE)

\* the caller's kind written whatever became of the collection
UncoercedType(has_table, file_type) == file_type

\* the kind UpdateTableFile / UpdateTableFiles writes:
\* TO_DELETE when the collection is gone, else the caller's kind
CoercedType(has_table, file_type) == IF has_table THEN file_type ELSE "TO_DELETE"

\* ConnectorPtr->update(file_schema): rewrites the row with that primary key, if any,
\* with every column of file_schema
UpdateRow(rows, file_schema) ==
    IF file_schema.id_ \in DOMAIN rows
    THEN [rows EXCEPT ![file_schema.id_] = Columns(file_schema)]
    ELSE rows

\* the TableFileSchema a caller holds of the row id: what the catalog stores, or, when
\* the row is gone, what is left of it
FileSchemaOf(id) ==
    IF id \in DOMAIN files THEN [id_ |-> id] @@ files[id]
    ELSE [id_ |-> id, table_id_ |-> "", segment_id_ |-> "", engine_type_ |-> DEFAULT_ENGINE_TYPE,
          file_id_ |-> "", file_type_ |-> "NEW", file_size_ |-> 0, row_count_ |-> 0,
          updated_time_ |-> 0, created_on_ |-> 0]

\* the check of UpdateTableFile with a select that came back empty taken for a live table
TableNotDeletedOrMissing(table_id) ==
    LET tables_ == TableRowsOf(table_id)
    IN ~(Cardinality(tables_) >= 1 /\ tables[CHOOSE i \in tables_ : TRUE].state_ = TO_DELETE)

\* the check of UpdateTableFile: the table row is there and not in delete state
TableNotDeleted(table_id) ==
    LET tables_ == TableRowsOf(table_id)
    IN ~(Cardinality(tables_) < 1 \/ tables[CHOOSE i \in tables_ : TRUE].state_ = TO_DELETE)

\* the rows after UpdateTableFile(file_schema) and the Status it returns;
\* throws: a statement raises
UpdateTableFileResult(file_schema, throws) ==
    LET has_table == TableNotDeleted(file_schema.table_id_)
    IN IF throws
       THEN [status |-> HandleException("Exception update table file"), files |-> files]
       ELSE [status |-> StatusOK,
             files |-> UpdateRow(files, [file_schema EXCEPT
                                           !.updated_time_ = now,
                                           !.file_type_ = CoercedType(has_table, @)])]

UpdateTableFileOf(file_schema, throws) ==
    LET r == UpdateTableFileResult(file_schema, throws)
    IN /\ files' = r.files
       /\ last' = [op |-> "UpdateTableFile", status |-> r.status]
       /\ UNCHANGED <<tables, nextId, now, cp, environment, blobs, synced, notified_, index_>>

\* UpdateTableFile by a caller that changed the kind of its copy of the row
UpdateTableFile(id, file_type, throws) ==
    UpdateTableFileOf([FileSchemaOf(id) EXCEPT !.file_type_ = file_type], throws)

\* has_tables[file.table_id_] of UpdateTableFiles
HasTables(table_id) ==
    Cardinality({i \in TableRowsOf(table_id) : tables[i].state_ # TO_DELETE}) >= 1

RECURSIVE UpdateAll(_, _)
\* the body of the transaction of UpdateTableFiles: one update per file of the batch, in order
UpdateAll(rows, batch) ==
    IF batch = <<>> THEN rows
    ELSE UpdateAll(UpdateRow(rows, [Head(batch) EXCEPT
                                       !.file_type_ = CoercedType(HasTables(Head(batch).table_id_), @),
                                       !.updated_time_ = now]),
                   Tail(batch))

\* a transaction that keeps what was written before it was rolled back
TransactionNoRollback(before, after, rolled_back) == after

\* ConnectorPtr->transaction(f): the statements of f take effect together, or not at
\* all when one of them raises or when transaction() returns false (it has rolled back)
Transaction(before, after, rolled_back) == IF rolled_back THEN before ELSE after

\* fail_at = 0: no statement raises; fail_at = k: the k-th update raises;
\* commited: what transaction() returns when no statement raises
UpdateTableFilesResult(batch, fail_at, commited) ==
    IF fail_at # 0
    THEN [status |-> HandleException("Encounter exception when update table files"),
          files |-> Transaction(files, UpdateAll(files, SubSeq(batch, 1, fail_at - 1)), TRUE)]
    ELSE IF ~commited
    THEN [status |-> HandleException("UpdateTableFiles error: sqlite transaction failed"),
          files |-> Transaction(files, UpdateAll(files, batch), TRUE)]
    ELSE [status |-> StatusOK, files |-> Transaction(files, UpdateAll(files, batch), FALSE)]

UpdateTableFiles(batch, fail_at, commited) ==
    LET r == UpdateTableFilesResult(batch, fail_at, commited)
    IN /\ files' = r.files
       /\ last' = [op |-> "UpdateTableFiles", status |-> r.status]
       /\ UNCHANGED <<tables, nextId, now, cp, environment, blobs, synced, notified_, index_>>

RECURSIVE UpdateRowCounts(_, _)
\* the loop of UpdateTableFilesRowCount: one update_all per file of the batch, in order,
\* where(file_id_ == file.file_id_), each a statement of its own
UpdateRowCounts(rows, batch) ==
    IF batch = <<>> THEN rows
    ELSE UpdateRowCounts([i \in DOMAIN rows |->
                             IF rows[i].file_id_ = Head(batch).file_id_
                             THEN [rows[i] EXCEPT !.row_count_ = Head(batch).row_count_,
                                                  !.updated_time_ = now]
                             ELSE rows[i]],
                         Tail(batch))

\* the rows after UpdateTableFilesRowCount(files) and the Status it returns;
\* fail_at = 0: no statement raises; fail_at = k: the k-th update_all raises
UpdateTableFilesRowCountResult(batch, fail_at) ==
    IF fail_at # 0
    THEN [status |-> HandleException("Encounter exception when update table files row count"),
          files |-> UpdateRowCounts(files, SubSeq(batch, 1, fail_at - 1))]
    ELSE [status |-> StatusOK, files |-> UpdateRowCounts(files, batch)]

UpdateTableFilesRowCount(batch, fail_at) ==
    LET r == UpdateTableFilesRowCountResult(batch, fail_at)
    IN /\ files' = r.files
       /\ last' = [op |-> "UpdateTableFilesRowCount", status |-> r.status]
       /\ UNCHANGED <<tables, nextId, now, cp, environment, blobs, synced, notified_, index_>>

\* the batches a caller of UpdateTableFilesRowCount can hold: stored files and their new counts
RowCountBatches ==
    UNION {[1..n -> {[file_id_ |-> files[i].file_id_, row_count_ |-> c] :
                        i \in DOMAIN files, c \in RowCounts}] : n \in 1..MaxBatch}

\* the batches a caller can hold: copies of stored rows with the kinds it wants written
FileCopies == {[FileSchemaOf(i) EXCEPT !.file_type_ = k] : i \in DOMAIN files, k \in BatchTypes}
Batches == UNION {[1..n -> FileCopies] : n \in 1..MaxBatch}

\* rows last written at the very microsecond the ttl reaches back to collected as well
ExpiredRowsAtOrBefore(rows, seconds) ==
    {i \in DOMAIN rows :
        /\ rows[i].file_type_ \in {"TO_DELETE", "BACKUP"}
        /\ rows[i].updated_time_ <= now - seconds * US_PS}

\* rows CleanUpFilesWithTTL collects: TO_DELETE or BACKUP and older than the ttl
ExpiredRows(rows, seconds) ==
    {i \in DOMAIN rows :
        /\ rows[i].file_type_ \in {"TO_DELETE", "BACKUP"}
        /\ rows[i].updated_time_ < now - seconds * US_PS}

ExpiredFiles(seconds) == ExpiredRows(files, seconds)

\* a cleaner that removes one row, the oldest, each time it runs
ToRemoveOne(rows, seconds, ignored) ==
    LET expired == {i \in ExpiredRows(rows, seconds) \ ignored : rows[i].file_type_ = "TO_DELETE"}
    IN {i \in expired : \A j \in expired : i <= j}

\* a cleaner that removes every row it collected and found not in use, BACKUP rows too
ToRemoveCollected(rows, seconds, ignored) == ExpiredRows(rows, seconds) \ ignored

\* the collected rows CleanUpFilesWithTTL removes: not in use, and TO_DELETE
ToRemove(rows, seconds, ignored) ==
    {i \in ExpiredRows(rows, seconds) \ ignored : rows[i].file_type_ = "TO_DELETE"}

\* where CleanUpFilesWithTTL can stop short: a block raises, or its transaction returns false
CleanUpFailures == {"none", "files_throw", "files_commit", "tables_throw", "tables_commit",
                    "folder_throw"}

\* the catalog and the disk after CleanUpFilesWithTTL has removed the rows `removed` of
\* rows, and the Status it returns; failure: the block of the function that fails, if any
CleanUpFilesOn(rows, tbls, disk, removed, failure) ==
    LET to_delete_tables == {i \in DOMAIN tbls : tbls[i].state_ = TO_DELETE}
        files_failed == failure \in {"files_throw", "files_commit"}
        tables_failed == failure \in {"tables_throw", "tables_commit"}
    IN [files |-> Transaction(rows, RemoveRows(rows, removed), files_failed),
        \* utils::DeleteTableFilePath runs inside the transaction, row by row: a commit
        \* that fails comes after the files are gone (files_throw: the select raises)
        blobs |-> IF failure = "files_throw" THEN disk
                  ELSE disk \ {rows[i].file_id_ : i \in removed},
        tables |-> Transaction(tbls, RemoveRows(tbls, to_delete_tables),
                               files_failed \/ tables_failed),
        status |-> CASE failure = "none" -> StatusOK
                     [] failure \in {"files_throw", "tables_throw"} ->
                           HandleException("Encounter exception when clean table files")
                     [] failure \in {"files_commit", "tables_commit"} ->
                           HandleException("CleanUpFilesWithTTL error: sqlite transaction failed")
                     [] failure = "folder_throw" ->
                           HandleException("Encounter exception when delete table folder")]

\* the catalog after CleanUpFilesWithTTL(seconds) and the Status it returns;
\* ignored: the rows OngoingFileChecker::IsIgnored reports as in use
CleanUpFilesWithTTLResult(seconds, ignored, failure) ==
    CleanUpFilesOn(files, tables, blobs, ToRemove(files, seconds, ignored), failure)

CleanUpFilesWithTTL(seconds, ignored, failure) ==
    LET r == CleanUpFilesWithTTLResult(seconds, ignored, failure)
    IN /\ files' = r.files
       /\ tables' = r.tables
       /\ last' = [op |-> "CleanUpFilesWithTTL", status |-> r.status]
       /\ blobs' = r.blobs
       /\ UNCHANGED <<nextId, now, cp, environment, synced, notified_, index_>>

\* the orders in which a select can hand over the rows S
Orders(S) == {s \in [1..Cardinality(S) -> S] : Range(s) = S}

\* FilesToMerge keeping the files of the size of index_file_size_
SkipsLargerFile(file_size, index_file_size) == file_size > index_file_size

\* "skip large file" of FilesToMerge
SkipsLargeFile(file_size, index_file_size) == file_size >= index_file_size

\* every result FilesToMerge(table_id) can return: order_by(file_size_).desc() leaves
\* the order of the files of one size to the database
FilesToMerge(table_id) ==
    LET describe == DescribeTable(table_id)
        table_schema == describe.schema
        selected == {i \in DOMAIN files :
                        files[i].file_type_ = "RAW" /\ files[i].table_id_ = table_id}
        ordered == {s \in Orders(selected) :
                       \A j, k \in DOMAIN s :
                           j < k => files[s[j]].file_size_ >= files[s[k]].file_size_}
        Kept(s) == SelectSeq(s, LAMBDA i : ~SkipsLargeFile(files[i].file_size_,
                                                            table_schema.index_file_size_))
    IN IF describe.status.code # DB_SUCCESS
       THEN {[status |-> describe.status, files |-> <<>>]}
       ELSE {[status |-> StatusOK,
              files |-> [k \in DOMAIN Kept(s) |-> FileSchemaOf(Kept(s)[k])]] : s \in ordered}

RECURSIVE FilesToIndexLoop(_, _)
\* the loop of FilesToIndex over the rows selected, collected being the files pushed so
\* far; the table of a file is described once, which finds what describing it per file finds
FilesToIndexLoop(selected, collected) ==
    IF selected = <<>> THEN [status |-> StatusOK, files |-> collected]
    ELSE LET status == DescribeTable(files[Head(selected)].table_id_).status
         IN IF status.code # DB_SUCCESS
            THEN [status |-> status, files |-> collected]
            ELSE FilesToIndexLoop(Tail(selected), Append(collected, FileSchemaOf(Head(selected))))

\* every result FilesToIndex() can return: the select has no order_by
FilesToIndex ==
    {FilesToIndexLoop(s, <<>>) : s \in Orders({i \in DOMAIN files : files[i].file_type_ = "TO_INDEX"})}

\* milvus::json::dump of the parameters of an index
Dump(extra_params) == "{\"nlist\":" \o ToString(extra_params.nlist) \o "}"

\* the BACKUP files of every table
BackupFilesOfAll(row, table_id) == row.file_type_ = "BACKUP"

\* where(table_id_ == table_id and file_type_ == BACKUP)
BackupFilesOf(row, table_id) == row.table_id_ = table_id /\ row.file_type_ = "BACKUP"

\* the catalog after UpdateTableIndex(table_id, index) and the Status it returns: the
\* schema update() writes is filled from a select that leaves flush_lsn_ out;
\* throw_at = 0: no statement raises; 1: the select raises; 2: the update of the files
\* raises, after the row of the table was written
UpdateTableIndexResult(table_id, index, throw_at) ==
    LET tables_ == {i \in TableRowsOf(table_id) : tables[i].state_ # TO_DELETE}
        updated == [i \in DOMAIN tables |->
                       IF i = (CHOOSE j \in tables_ : TRUE)
                       THEN [tables[i] EXCEPT !.engine_type_ = index.engine_type_,
                                              !.index_params_ = Dump(index.extra_params_),
                                              !.metric_type_ = index.metric_type_,
                                              !.flush_lsn_ = DefaultFlushLsn]
                       ELSE tables[i]]
        raw == [i \in DOMAIN files |->
                   IF BackupFilesOf(files[i], table_id)
                   THEN [files[i] EXCEPT !.file_type_ = "RAW", !.updated_time_ = now]
                   ELSE files[i]]
        failed == HandleException("Encounter exception when update table index: table_id = " \o table_id)
    IN IF throw_at = 1 THEN [status |-> failed, tables |-> tables, files |-> files]
       ELSE IF ~(Cardinality(tables_) > 0)
       THEN [status |-> Status(DB_NOT_FOUND, "Table not found"), tables |-> tables, files |-> files]
       ELSE IF throw_at = 2 THEN [status |-> failed, tables |-> updated, files |-> files]
       ELSE [status |-> StatusOK, tables |-> updated, files |-> raw]

UpdateTableIndex(table_id, index, throw_at) ==
    LET r == UpdateTableIndexResult(table_id, index, throw_at)
    IN /\ tables' = r.tables
       /\ files' = r.files
       /\ last' = [op |-> "UpdateTableIndex", status |-> r.status]
       /\ UNCHANGED <<nextId, now, cp, environment, blobs, synced, notified_, index_>>

\* a threshold that takes the files of more rows only
OverThreshold(row_count) == row_count > BUILD_INDEX_THRESHOLD

\* row_count_ >= meta::BUILD_INDEX_THRESHOLD
AtThreshold(row_count) == row_count >= BUILD_INDEX_THRESHOLD

\* the rows after UpdateTableFilesToIndex(table_id) and the Status it returns
UpdateTableFilesToIndexResult(table_id, throws) ==
    IF throws
    THEN [status |-> HandleException("Encounter exception when update table files to to_index"),
          files |-> files]
    ELSE [status |-> StatusOK,
          files |-> [i \in DOMAIN files |->
                        IF /\ files[i].table_id_ = table_id
                           /\ AtThreshold(files[i].row_count_)
                           /\ files[i].file_type_ = "RAW"
                        THEN [files[i] EXCEPT !.file_type_ = "TO_INDEX"]
                        ELSE files[i]]]

UpdateTableFilesToIndex(table_id, throws) ==
    LET r == UpdateTableFilesToIndexResult(table_id, throws)
    IN /\ files' = r.files
       /\ last' = [op |-> "UpdateTableFilesToIndex", status |-> r.status]
       /\ UNCHANGED <<tables, nextId, now, cp, environment, blobs, synced, notified_, index_>>

\* the engine type DropTableIndex leaves to every table whatever its metric
RawEngineTypeFloat(groups) == DEFAULT_ENGINE_TYPE

\* the engine type DropTableIndex leaves: the flat index of the kind of vectors of the metric
RawEngineType(groups) ==
    IF Cardinality(groups) = 1 /\ IsBinaryMetricType(tables[CHOOSE i \in groups : TRUE].metric_type_)
    THEN FAISS_BIN_IDMAP
    ELSE DEFAULT_ENGINE_TYPE

\* the catalog after DropTableIndex(table_id) and the Status it returns; throw_at = 0: no
\* statement raises; k: the k-th of its four statements raises, the ones before it written
DropTableIndexResult(table_id, throw_at) ==
    LET deleted == [i \in DOMAIN files |->
                       IF files[i].table_id_ = table_id /\ files[i].file_type_ = "INDEX"
                       THEN [files[i] EXCEPT !.file_type_ = "TO_DELETE", !.updated_time_ = now]
                       ELSE files[i]]
        raw == [i \in DOMAIN deleted |->
                   IF BackupFilesOf(deleted[i], table_id)
                   THEN [deleted[i] EXCEPT !.file_type_ = "RAW", !.updated_time_ = now]
                   ELSE deleted[i]]
        raw_engine_type == RawEngineType(TableRowsOf(table_id))
        reset == [i \in DOMAIN tables |->
                     IF tables[i].table_id_ = table_id
                     THEN [tables[i] EXCEPT !.engine_type_ = raw_engine_type, !.index_params_ = "{}"]
                     ELSE tables[i]]
        failed == HandleException("Encounter exception when delete table index files")
    IN CASE throw_at = 0 -> [status |-> StatusOK, tables |-> reset, files |-> raw]
         [] throw_at = 1 -> [status |-> failed, tables |-> tables, files |-> files]
         [] throw_at = 2 -> [status |-> failed, tables |-> tables, files |-> deleted]
         [] throw_at \in {3, 4} -> [status |-> failed, tables |-> tables, files |-> raw]

DropTableIndex(table_id, throw_at) ==
    LET r == DropTableIndexResult(table_id, throw_at)
    IN /\ tables' = r.tables
       /\ files' = r.files
       /\ last' = [op |-> "DropTableIndex", status |-> r.status]
       /\ UNCHANGED <<nextId, now, cp, environment, blobs, synced, notified_, index_>>

RECURSIVE SumOfSizes(_, _)
\* sum(file_size_) over the rows ids
SumOfSizes(rows, ids) ==
    IF ids = {} THEN 0
    ELSE LET i == CHOOSE j \in ids : TRUE IN rows[i].file_size_ + SumOfSizes(rows, ids \ {i})

\* the result Size() leaves in its argument: 0 when the select raises
Size(rows, throws) ==
    IF throws THEN 0
    ELSE SumOfSizes(rows, {i \in DOMAIN rows : rows[i].file_type_ # "TO_DELETE"})

\* the rows DiscardFiles reads in one transaction: limit(10)
DiscardLimit == 10

\* a loop that does not look at what is left to discard
DiscardedAll(rows, selected, to_discard_size) == selected

RECURSIVE Discarded(_, _, _)
\* the ids the loop of DiscardFiles collects: those of the selected rows read before
\* to_discard_size is used up
Discarded(rows, selected, to_discard_size) ==
    IF selected = <<>> \/ to_discard_size <= 0 THEN <<>>
    ELSE <<Head(selected)>> \o
         Discarded(rows, Tail(selected), to_discard_size - rows[Head(selected)].file_size_)

\* where DiscardFiles can fail: its transaction raises or returns false
DiscardFailures == {"none", "throw", "commit"}

RECURSIVE DiscardFiles(_, _, _)
\* the rows after DiscardFiles(to_discard_size) and the Status it returns; failure: what
\* happens to its first transaction; returns = FALSE: the call finds nothing to discard
\* with to_discard_size > 0 and calls itself with the same argument without end
DiscardFiles(rows, to_discard_size, failure) ==
    IF to_discard_size <= 0 THEN [status |-> StatusOK, files |-> rows, returns |-> TRUE]
    ELSE IF failure = "throw"
    THEN [status |-> HandleException("Encounter exception when discard table file"),
          files |-> rows, returns |-> TRUE]
    ELSE LET live == AscendingSeq({i \in DOMAIN rows : rows[i].file_type_ # "TO_DELETE"})
             selected == SubSeq(live, 1, IF Len(live) < DiscardLimit THEN Len(live) ELSE DiscardLimit)
             ids == Discarded(rows, selected, to_discard_size)
             updated == [i \in DOMAIN rows |->
                            IF i \in Range(ids)
                            THEN [rows[i] EXCEPT !.file_type_ = "TO_DELETE", !.updated_time_ = now]
                            ELSE rows[i]]
         IN IF failure = "commit"
            THEN [status |-> HandleException("DiscardFiles error: sqlite transaction failed"),
                  files |-> Transaction(rows, updated, TRUE), returns |-> TRUE]
            ELSE IF ids = <<>>
            THEN [status |-> StatusOK, files |-> rows, returns |-> FALSE]
            ELSE DiscardFiles(Transaction(rows, updated, FALSE),
                              to_discard_size - SumOfSizes(rows, Range(ids)), "none")

\* created_on_ < now - limit * DAY * US_PS, in numbers that stay small
OlderThanDays(created_on, limit) ==
    now - created_on >= 1 /\ (now - created_on - 1) \div US_PS >= limit * DAY

\* the criteria of archive_conf_: limits by criterion, "days" before "disk" in the map
ArchiveLimits == {0, 1}
Criterias == UNION {[keys -> ArchiveLimits] : keys \in SUBSET {"days", "disk"}}

\* the rows after Archive() under the criteria and the Status it returns; days_throws: the
\* update of the days criterion raises; size_throws: the select of Size raises;
\* failure: what happens to the first transaction of DiscardFiles
ArchiveResult(criterias, days_throws, size_throws, failure) ==
    LET by_days == "days" \in DOMAIN criterias
        aged == IF by_days /\ ~days_throws
                THEN [i \in DOMAIN files |->
                         IF /\ OlderThanDays(files[i].created_on_, criterias["days"])
                            /\ files[i].file_type_ # "TO_DELETE"
                         THEN [files[i] EXCEPT !.file_type_ = "TO_DELETE"]
                         ELSE files[i]]
                ELSE files
        sum == Size(aged, size_throws)
        to_delete == sum - criterias["disk"] * G
        discard == DiscardFiles(aged, to_delete, failure)
    IN IF by_days /\ days_throws
       THEN [status |-> HandleException("Encounter exception when update table files"),
             files |-> files, returns |-> TRUE]
       ELSE IF "disk" \in DOMAIN criterias
       THEN [status |-> StatusOK, files |-> discard.files, returns |-> discard.returns]
       ELSE [status |-> StatusOK, files |-> aged, returns |-> TRUE]

Archive(criterias, days_throws, size_throws, failure) ==
    LET r == ArchiveResult(criterias, days_throws, size_throws, failure)
    IN /\ r.returns
       /\ files' = r.files
       /\ last' = [op |-> "Archive", status |-> r.status]
       /\ UNCHANGED <<tables, nextId, now, cp, environment, blobs, synced, notified_, index_>>

\* ------------------------------------------------------------ lsn and flag
Lsns == 0..MaxLsn
Flags == {0, 1}

\* update_all(set(flag_ = flag), where(table_id_ == table_id)): rows of any state
UpdateTableFlagResult(table_id, flag, throws) ==
    IF throws
    THEN [status |-> HandleException("Encounter exception when update table flag: table_id = " \o table_id),
          tables |-> tables]
    ELSE [status |-> StatusOK,
          tables |-> [i \in DOMAIN tables |->
                         IF tables[i].table_id_ = table_id THEN [tables[i] EXCEPT !.flag_ = flag]
                         ELSE tables[i]]]

UpdateTableFlag(table_id, flag, throws) ==
    LET r == UpdateTableFlagResult(table_id, flag, throws)
    IN /\ tables' = r.tables
       /\ last' = [op |-> "UpdateTableFlag", status |-> r.status]
       /\ UNCHANGED <<files, nextId, now, cp, environment, blobs, synced, notified_, index_>>

\* update_all(set(flush_lsn_ = flush_lsn), where(table_id_ == table_id)): rows of any
\* state, whatever lsn they hold
UpdateTableFlushLSNResult(table_id, flush_lsn, throws) ==
    IF throws
    THEN [status |-> HandleException("Encounter exception when update table lsn: table_id = " \o table_id),
          tables |-> tables]
    ELSE [status |-> StatusOK,
          tables |-> [i \in DOMAIN tables |->
                         IF tables[i].table_id_ = table_id THEN [tables[i] EXCEPT !.flush_lsn_ = flush_lsn]
                         ELSE tables[i]]]

UpdateTableFlushLSN(table_id, flush_lsn, throws) ==
    LET r == UpdateTableFlushLSNResult(table_id, flush_lsn, throws)
    IN /\ tables' = r.tables
       /\ last' = [op |-> "UpdateTableFlushLSN", status |-> r.status]
       /\ UNCHANGED <<files, nextId, now, cp, environment, blobs, synced, notified_, index_>>

GetTableFlushLSN(table_id) ==
    LET selected == TableRowsOf(table_id)
    IN IF Cardinality(selected) > 0
       THEN [status |-> StatusOK, flush_lsn |-> tables[CHOOSE i \in selected : TRUE].flush_lsn_]
       ELSE [status |-> Status(DB_NOT_FOUND, "Table not found"), flush_lsn |-> 0]

\* "Exception update global lsn = " + lsn: the literal from its lsn-th character on
GlobalLsnMessage(lsn) ==
    CASE lsn = 0 -> "Exception update global lsn = "
      [] lsn = 1 -> "xception update global lsn = "
      [] lsn = 2 -> "ception update global lsn = "
      [] lsn = 3 -> "eption update global lsn = "
      [] OTHER -> "ption update global lsn = "

\* the rows of META_ENVIRONMENT after SetGlobalLastLSN(lsn) has written, and the Status it
\* returns; selected: what its select read; throws: the insert or the update raises
SetGlobalLastLSNWrite(rows, selected, lsn, throws) ==
    IF Len(selected) # 0 /\ lsn = selected[1]
    THEN [status |-> StatusOK, environment |-> rows]
    ELSE IF throws
    THEN [status |-> HandleException(GlobalLsnMessage(lsn)), environment |-> rows]
    ELSE IF Len(selected) = 0
    THEN [status |-> StatusOK, environment |-> Append(rows, lsn)]
    ELSE [status |-> StatusOK, environment |-> [k \in DOMAIN rows |-> lsn]]

\* SetGlobalLastLSN run from entry to return with no other call in between
SetGlobalLastLSN(lsn, throws) ==
    LET r == SetGlobalLastLSNWrite(environment, environment, lsn, throws)
    IN /\ \A t \in Threads : cp[t].stage = "idle"
       /\ environment' = r.environment
       /\ last' = [op |-> "SetGlobalLastLSN", status |-> r.status]
       /\ UNCHANGED <<tables, files, nextId, now, cp, blobs, synced, notified_, index_>>

\* SetGlobalLastLSN statement by statement (it takes no lock): the select ...
SetGlobalLastLSNSelect(t, lsn) ==
    /\ cp[t].stage = "idle"
    /\ cp' = [cp EXCEPT ![t] = [stage |-> "lsn_selected", lsn |-> lsn, selected |-> environment]]
    /\ UNCHANGED <<tables, files, nextId, now, last, environment, blobs, synced, notified_, index_>>

\* ... and the insert or update that its result leads to
SetGlobalLastLSNCommit(t, throws) ==
    LET r == SetGlobalLastLSNWrite(environment, cp[t].selected, cp[t].lsn, throws)
    IN /\ cp[t].stage = "lsn_selected"
       /\ environment' = r.environment
       /\ last' = [op |-> "SetGlobalLastLSN", status |-> r.status]
       /\ cp' = [cp EXCEPT ![t] = [stage |-> "idle"]]
       /\ UNCHANGED <<tables, files, nextId, now, blobs, synced, notified_, index_>>

GetGlobalLastLSN ==
    [status |-> StatusOK, lsn |-> IF Len(environment) = 0 THEN 0 ELSE environment[1]]

\* drop_table(META_TABLES); drop_table(META_TABLEFILES): META_ENVIRONMENT stays.
\* throw_at = 0: no statement raises; k: the k-th drop raises (a table that is not there
\* cannot be dropped)
DropAllResult(throw_at) ==
    LET failed == HandleException("Encounter exception when drop all meta")
    IN IF throw_at = 1 \/ ~synced
       THEN [status |-> failed, tables |-> tables, files |-> files, synced |-> synced]
       ELSE IF throw_at = 2
       THEN [status |-> failed, tables |-> <<>>, files |-> files, synced |-> FALSE]
       ELSE [status |-> StatusOK, tables |-> <<>>, files |-> <<>>, synced |-> FALSE]

DropAll(throw_at) ==
    LET r == DropAllResult(throw_at)
    IN /\ tables' = r.tables
       /\ files' = r.files
       /\ synced' = r.synced
       /\ last' = [op |-> "DropAll", status |-> r.status]
       /\ UNCHANGED <<nextId, now, cp, environment, blobs, notified_, index_>>

\* ------------------------------------------------------------- restart
\* CleanUpShadowFiles taking NEW files only for what a stopped process left behind
ShadowFilesNewOnly(rows) == {i \in DOMAIN rows : rows[i].file_type_ = "NEW"}

\* where(in(file_type_, {NEW, NEW_INDEX, NEW_MERGE}))
ShadowFiles(rows) == {i \in DOMAIN rows : rows[i].file_type_ \in {"NEW", "NEW_INDEX", "NEW_MERGE"}}

\* where CleanUpShadowFiles can stop short: a statement raises, or transaction() returns false
ShadowFailures == {"none", "throw", "commit"}

\* the rows after CleanUpShadowFiles() and the Status it returns
CleanUpShadowFilesResult(rows, failure) ==
    [files |-> Transaction(rows, RemoveRows(rows, ShadowFiles(rows)), failure # "none"),
     status |-> CASE failure = "none" -> StatusOK
                  [] failure = "throw" -> HandleException("Encounter exception when clean table file")
                  [] failure = "commit" -> HandleException("CleanUp error: sqlite transaction failed")]

\* sqlite_orm::sync_schema_result: what sync_schema does, or sync_schema_simulate would
\* do, to one table of the storage
SyncSchemaResults ==
    {"new_table_created", "already_in_sync", "old_columns_removed", "new_columns_added",
     "new_columns_added_and_old_columns_removed", "dropped_and_recreated"}

\* the results of sync_schema_simulate() for the three tables of StoragePrototype: a table
\* is created exactly when it is not there (META_ENVIRONMENT is never dropped)
Simulations ==
    {sim \in [environment : SyncSchemaResults \ {"new_table_created"},
              tables : SyncSchemaResults, files : SyncSchemaResults] :
        /\ (sim.tables = "new_table_created") = (~synced)
        /\ (sim.files = "new_table_created") = (~synced /\ files = <<>>)}

\* the storage file was written by this version: nothing to change
CurrentSchema ==
    [environment |-> "already_in_sync",
     tables |-> IF synced THEN "already_in_sync" ELSE "new_table_created",
     files |-> IF ~synced /\ files = <<>> THEN "new_table_created" ELSE "already_in_sync"]

\* ValidateMetaSchema looking at META_TABLES only
ValidateMetaSchemaTablesOnly(simulate) == simulate.tables = "dropped_and_recreated"

\* TRUE when ValidateMetaSchema() throws Exception(DB_INCOMPATIB_META, ...)
ValidateMetaSchema(simulate) ==
    \/ simulate.tables = "dropped_and_recreated"
    \/ simulate.files = "dropped_and_recreated"

\* the rows of one table after sync_schema(): a table dropped and recreated is empty, a
\* table altered in place keeps its rows
SyncSchema(rows, result) == IF result = "dropped_and_recreated" THEN <<>> ELSE rows

\* the catalog after Initialize() and what it returns or throws, simulate being what
\* sync_schema_simulate() reports for the storage file: ValidateMetaSchema first, then
\* sync_schema, then CleanUpShadowFiles whose Status is dropped
InitializeOn(simulate, failure) ==
    IF ValidateMetaSchema(simulate)
    THEN [files |-> files, tables |-> tables, environment |-> environment, synced |-> synced,
          status |-> Status(DB_INCOMPATIB_META,
                            IF simulate.tables = "dropped_and_recreated"
                            THEN "Meta Tables schema is created by Milvus old version"
                            ELSE "Meta TableFiles schema is created by Milvus old version")]
    ELSE [files |-> CleanUpShadowFilesResult(SyncSchema(files, simulate.files), failure).files,
          tables |-> SyncSchema(tables, simulate.tables),
          environment |-> SyncSchema(environment, simulate.environment),
          synced |-> TRUE,
          status |-> StatusOK]

\* Initialize() on a storage file this version wrote
InitializeResult(failure) == InitializeOn(CurrentSchema, failure)

\* the process stops and the next one constructs the store on a storage file that any
\* version may have written
InitializeOf(simulate, failure) ==
    LET r == InitializeOn(simulate, failure)
    IN /\ files' = r.files
       /\ tables' = r.tables
       /\ environment' = r.environment
       /\ synced' = r.synced
       /\ cp' = [t \in Threads |-> [stage |-> "idle"]]
       /\ last' = [op |-> "Initialize", status |-> r.status]
       /\ UNCHANGED <<nextId, now, blobs, notified_, index_>>

\* the process stops, whatever its threads were doing, and the next one constructs the
\* store: Initialize()
Initialize(failure) ==
    LET r == InitializeResult(failure)
    IN /\ files' = r.files
       /\ tables' = r.tables
       /\ synced' = r.synced
       /\ cp' = [t \in Threads |-> [stage |-> "idle"]]
       /\ last' = [op |-> "Initialize", status |-> r.status]
       /\ UNCHANGED <<nextId, now, environment, blobs, notified_, index_>>

\* ------------------------------------------------- files in use and the cleaner
\* the caller of CreateTableFile writes the segment file of the row it created
WriteSegmentFile(id) ==
    /\ id \in DOMAIN files
    /\ files[id].file_type_ \in {"NEW", "NEW_MERGE", "NEW_INDEX"}
    /\ blobs' = blobs \cup {files[id].file_id_}
    /\ UNCHANGED <<tables, files, nextId, now, cp, last, environment, synced, notified_, index_>>

\* a query gathers the files of the collection with FilesToSearch ...
QueryGather(t, table_id) ==
    LET r == FilesToSearch(table_id, {})
    IN /\ cp[t].stage = "idle"
       /\ r.status.code = DB_SUCCESS
       /\ cp' = [cp EXCEPT ![t] = [stage |-> "gathered",
                                   files |-> {files[r.files[k].id_].file_id_ : k \in DOMAIN r.files}]]
       /\ UNCHANGED <<tables, files, nextId, now, last, environment, blobs, synced, notified_, index_>>

\* ... registers them in OngoingFileChecker for the time it reads them ...
MarkOngoingFiles(t) ==
    /\ cp[t].stage = "gathered"
    /\ cp' = [cp EXCEPT ![t].stage = "marked"]
    /\ UNCHANGED <<tables, files, nextId, now, last, environment, blobs, synced, notified_, index_>>

\* ... and releases them when it is done
UnmarkOngoingFiles(t) ==
    /\ cp[t].stage = "marked"
    /\ cp' = [cp EXCEPT ![t] = [stage |-> "idle"]]
    /\ UNCHANGED <<tables, files, nextId, now, last, environment, blobs, synced, notified_, index_>>

\* the reference count OngoingFileChecker keeps of the file
OngoingFiles(file_id) == Cardinality({t \in Threads : cp[t].stage = "marked" /\ file_id \in cp[t].files})

\* OngoingFileChecker::IsIgnored: the file is registered
IsIgnored(file_id) == OngoingFiles(file_id) > 0

\* no thread is inside the first block of CleanUpFilesWithTTL, which holds meta_mutex_
MutexFree == \A t \in Threads : cp[t].stage \notin {"cleaning", "checked"}

\* the first block of CleanUpFilesWithTTL statement by statement, under meta_mutex_:
\* the select of the expired files ...
CleanUpSelect(t, seconds) ==
    /\ cp[t].stage = "idle"
    /\ MutexFree
    /\ cp' = [cp EXCEPT ![t] = [stage |-> "cleaning", todo |-> AscendingSeq(ExpiredFiles(seconds)),
                                removed |-> {}]]
    /\ UNCHANGED <<tables, files, nextId, now, last, environment, blobs, synced, notified_, index_>>

\* ... for each file the check that it is not in use; a file in use, or one that is
\* not TO_DELETE, is passed over ...
CleanUpCheck(t) ==
    /\ cp[t].stage = "cleaning"
    /\ cp[t].todo # <<>>
    /\ LET file == files[Head(cp[t].todo)]
       IN cp' = IF IsIgnored(file.file_id_) \/ file.file_type_ # "TO_DELETE"
                THEN [cp EXCEPT ![t].todo = Tail(@)]
                ELSE [cp EXCEPT ![t].stage = "checked"]
    /\ UNCHANGED <<tables, files, nextId, now, last, environment, blobs, synced, notified_, index_>>

\* ... the remove of the row, inside the transaction, and the deletion of the file ...
CleanUpRemove(t) ==
    /\ cp[t].stage = "checked"
    /\ cp' = [cp EXCEPT ![t] = [stage |-> "cleaning", todo |-> Tail(cp[t].todo),
                                removed |-> cp[t].removed \cup {Head(cp[t].todo)}]]
    /\ blobs' = blobs \ {files[Head(cp[t].todo)].file_id_}
    /\ UNCHANGED <<tables, files, nextId, now, last, environment, synced, notified_, index_>>

\* ... and the commit, followed by the blocks that remove the collections and the folders
CleanUpCommit(t, failure) ==
    LET r == CleanUpFilesOn(files, tables, blobs, cp[t].removed, failure)
    IN /\ cp[t].stage = "cleaning"
       /\ cp[t].todo = <<>>
       /\ files' = r.files
       /\ tables' = r.tables
       /\ blobs' = r.blobs
       /\ last' = [op |-> "CleanUpFilesWithTTL", status |-> r.status]
       /\ cp' = [cp EXCEPT ![t] = [stage |-> "idle"]]
       /\ UNCHANGED <<nextId, now, environment, synced, notified_, index_>>

\* a second passes, up to `ticks` seconds after the start
TickWithin(ticks) ==
    /\ now < StartTime + ticks * US_PS
    /\ now' = now + US_PS
    /\ UNCHANGED <<tables, files, nextId, cp, last, environment, blobs, synced, notified_, index_>>

Tick == TickWithin(MaxTicks)

\* every table id a caller can name
TableIds == UserTableIds \cup {ToString(n) : n \in 1..MaxGenTableId}

Init ==
    /\ tables = <<>>
    /\ files = <<>>
    /\ nextId = 1
    /\ now = StartTime
    /\ cp = [t \in Threads |-> [stage |-> "idle"]]
    /\ last = [op |-> "Initialize", status |-> StatusOK]
    /\ environment = <<>>
    /\ blobs = {}
    /\ synced = TRUE
    /\ notified_ = FALSE
    /\ index_ = [xb |-> {}, bitset |-> {}]

\* the segment workload: collections named by the caller and their segment files
Next ==
    \/ \E table_id \in UserTableIds, throws \in BOOLEAN : CreateTable(table_id, throws)
    \/ \E table_id \in UserTableIds : DropTable(table_id)
    \/ \E table_id \in UserTableIds : DeleteTableFiles(table_id)
    \/ \E table_id \in UserTableIds, file_type \in CreatedTypes : CreateTableFile(table_id, file_type)
    \/ \E id \in 1..MaxFileRowId, file_type \in WrittenTypes, throws \in BOOLEAN :
          UpdateTableFile(id, file_type, throws)
    \/ \E batch \in Batches : \E fail_at \in 0..Len(batch), commited \in BOOLEAN :
          (fail_at # 0 => commited) /\ UpdateTableFiles(batch, fail_at, commited)
    \/ \E seconds \in 0..MaxTTL, failure \in CleanUpFailures :
          \E ignored \in SUBSET ExpiredFiles(seconds) : CleanUpFilesWithTTL(seconds, ignored, failure)
    \/ Tick

Spec == Init /\ [][Next]_vars

\* the partition workload: collections, partitions and the cleaner, each call run to its return
NextPartition ==
    \/ \E table_id \in UserTableIds \cup {""}, throws \in BOOLEAN : CreateTable(table_id, throws)
    \/ \E table_id \in TableIds : DropTable(table_id)
    \/ \E table_id \in TableIds, partition_name \in UserTableIds \cup {""}, tag \in RawTags,
          throws \in BOOLEAN : CreatePartition(table_id, partition_name, tag, throws)
    \/ \E seconds \in 0..MaxTTL, failure \in CleanUpFailures :
          CleanUpFilesWithTTL(seconds, {}, failure)

SpecPartition == Init /\ [][NextPartition]_vars

\* the single-file workload: segment files written only through UpdateTableFile
NextUpdate ==
    \/ \E table_id \in UserTableIds, throws \in BOOLEAN : CreateTable(table_id, throws)
    \/ \E table_id \in UserTableIds : DropTable(table_id)
    \/ \E table_id \in UserTableIds, file_type \in CreatedTypes : CreateTableFile(table_id, file_type)
    \/ \E id \in 1..MaxFileRowId, file_type \in WrittenTypes, throws \in BOOLEAN :
          UpdateTableFile(id, file_type, throws)
    \/ \E seconds \in 0..MaxTTL, failure \in CleanUpFailures :
          \E ignored \in SUBSET ExpiredFiles(seconds) : CleanUpFilesWithTTL(seconds, ignored, failure)
    \/ Tick

SpecUpdate == Init /\ [][NextUpdate]_vars

\* the batch workload: segment files written only through UpdateTableFiles
NextBatch ==
    \/ \E table_id \in UserTableIds, throws \in BOOLEAN : CreateTable(table_id, throws)
    \/ \E table_id \in UserTableIds : DropTable(table_id)
    \/ \E table_id \in UserTableIds, file_type \in CreatedTypes : CreateTableFile(table_id, file_type)
    \/ \E batch \in Batches : \E fail_at \in 0..Len(batch), commited \in BOOLEAN :
          (fail_at # 0 => commited) /\ UpdateTableFiles(batch, fail_at, commited)
    \/ \E seconds \in 0..MaxTTL, failure \in CleanUpFailures :
          \E ignored \in SUBSET ExpiredFiles(seconds) : CleanUpFilesWithTTL(seconds, ignored, failure)
    \/ Tick

SpecBatch == Init /\ [][NextBatch]_vars

\* the segment a caller of CreateTableFile hands over: its kind and the segment it joins
FileSchemas ==
    {[table_id_ |-> table_id, file_type_ |-> file_type, segment_id_ |-> segment_id] :
        table_id \in UserTableIds, file_type \in CreatedKinds, segment_id \in SegmentIds}

\* the creation workload: collections of either kind of vectors and the files created in them
NextCreate ==
    \/ \E table_id \in UserTableIds, metric_type \in MetricTypes :
          CreateTableOf(TableSchemaOf(table_id, metric_type), FALSE)
    \/ \E table_id \in UserTableIds : DropTable(table_id)
    \/ \E file_schema \in FileSchemas, throws \in BOOLEAN : CreateTableFileOf(file_schema, throws)
    \/ Tick

SpecCreate == Init /\ [][NextCreate]_vars

\* the build workload: files filled with rows and picked for the building of an index
NextToIndex ==
    \/ \E table_id \in UserTableIds : CreateTable(table_id, FALSE)
    \/ \E table_id \in UserTableIds : DropTable(table_id)
    \/ \E table_id \in UserTableIds : CreateTableFile(table_id, "NEW")
    \/ \E id \in 1..MaxFileRowId, file_type \in IndexedTypes, row_count \in RowCounts :
          UpdateTableFileOf([FileSchemaOf(id) EXCEPT !.file_type_ = file_type,
                                                     !.row_count_ = row_count], FALSE)
    \/ \E table_id \in UserTableIds, throws \in BOOLEAN : UpdateTableFilesToIndex(table_id, throws)

SpecToIndex == Init /\ [][NextToIndex]_vars

\* the merge workload: files of every size around the one looked for in merged files
NextMerge ==
    \/ \E table_id \in UserTableIds : CreateTable(table_id, FALSE)
    \/ \E table_id \in UserTableIds : DropTable(table_id)
    \/ \E table_id \in UserTableIds : CreateTableFile(table_id, "NEW")
    \/ \E id \in 1..MaxFileRowId, file_type \in IndexedTypes, file_size \in FileSizes :
          UpdateTableFileOf([FileSchemaOf(id) EXCEPT !.file_type_ = file_type,
                                                     !.file_size_ = file_size], FALSE)

SpecMerge == Init /\ [][NextMerge]_vars

\* the archive workload: files of some size, archived by age and by the room they take
NextArchive ==
    \/ \E table_id \in UserTableIds : CreateTable(table_id, FALSE)
    \/ \E table_id \in UserTableIds : CreateTableFile(table_id, "NEW")
    \/ \E id \in 1..MaxFileRowId, file_size \in FileSizes :
          UpdateTableFileOf([FileSchemaOf(id) EXCEPT !.file_type_ = "RAW",
                                                     !.file_size_ = file_size], FALSE)
    \/ \E criterias \in Criterias, days_throws, size_throws \in BOOLEAN, failure \in DiscardFailures :
          Archive(criterias, days_throws, size_throws, failure)
    \/ Tick

SpecArchive == Init /\ [][NextArchive]_vars

\* the index workload: collections of float vectors, their files as an index is asked for
NextIndex ==
    \/ \E table_id \in UserTableIds : CreateTable(table_id, FALSE)
    \/ \E table_id \in UserTableIds : DropTable(table_id)
    \/ \E table_id \in UserTableIds : CreateTableFile(table_id, "NEW")
    \/ \E id \in 1..MaxFileRowId, file_type \in IndexedTypes : UpdateTableFile(id, file_type, FALSE)
    \/ \E table_id \in UserTableIds, index \in TableIndexes, throw_at \in 0..2 :
          UpdateTableIndex(table_id, index, throw_at)

SpecIndex == Init /\ [][NextIndex]_vars

\* the index removal workload: collections of either kind of vectors, their files as an
\* index is given to them and dropped
NextDropIndex ==
    \/ \E table_id \in UserTableIds, metric_type \in MetricTypes :
          CreateTableOf(TableSchemaOf(table_id, metric_type), FALSE)
    \/ \E table_id \in UserTableIds : CreateTableFile(table_id, "NEW")
    \/ \E id \in 1..MaxFileRowId, file_type \in IndexedTypes : UpdateTableFile(id, file_type, FALSE)
    \/ \E table_id \in UserTableIds, index \in TableIndexes : UpdateTableIndex(table_id, index, 0)
    \/ \E table_id \in UserTableIds, throw_at \in 0..4 : DropTableIndex(table_id, throw_at)

SpecDropIndex == Init /\ [][NextDropIndex]_vars

\* the catalog under callers of CreatePartition that run side by side
NextConcurrent ==
    \/ \E table_id \in UserTableIds, throws \in BOOLEAN : CreateTable(table_id, throws)
    \/ \E table_id \in TableIds : DropTable(table_id)
    \/ \E t \in Threads, table_id \in UserTableIds, partition_name \in UserTableIds \cup {""},
          tag \in RawTags : CreatePartitionBegin(t, table_id, partition_name, tag)
    \/ \E t \in Threads : CreatePartitionCheck(t)
    \/ \E t \in Threads, throws \in BOOLEAN : CreatePartitionCommit(t, throws)

SpecConcurrent == Init /\ [][NextConcurrent]_vars

\* ------------------------------------------------------------------ claims
IsNormal(table_id) == table_id \in DOMAIN tables /\ tables[table_id].state_ = "NORMAL"

\* C1: FilesToSearch(collection, ids) returns a segment iff it belongs to the collection,
\* its kind is RAW, TO_INDEX or INDEX, the collection is NORMAL and (ids non-empty) its
\* row id is in ids; for a TO_DELETE or absent collection it returns NOT_FOUND and nothing.
C1_FilesToSearchVisible ==
    \A table_id \in TableIds : \A ids \in SUBSET (1..MaxFileRowId) :
        LET r == FilesToSearch(table_id, ids)
            returned == {r.files[k].id_ : k \in DOMAIN r.files}
        IN IF IsNormal(table_id)
           THEN /\ r.status.code = "DB_SUCCESS"
                /\ \A i \in 1..MaxFileRowId :
                      i \in returned <=> /\ i \in DOMAIN files
                                         /\ files[i].table_id_ = table_id
                                         /\ files[i].file_type_ \in {"RAW", "TO_INDEX", "INDEX"}
                                         /\ (ids # {} => i \in ids)
           ELSE r.status.code = "DB_NOT_FOUND" /\ r.files = <<>>

\* a NORMAL collection with a segment to search beside a dropped one that still holds a RAW segment
C1_Witness ==
    \E t \in DOMAIN tables, u \in DOMAIN tables :
        /\ tables[t].state_ = "NORMAL" /\ FilesToSearch(t, {}).files # <<>>
        /\ tables[u].state_ = "TO_DELETE"
        /\ \E i \in DOMAIN files : files[i].table_id_ = u /\ files[i].file_type_ = "RAW"
        /\ FilesToSearch(u, {}).status.code = "DB_NOT_FOUND"

VisibleTypes == {"RAW", "TO_INDEX", "INDEX"}

C3_UpdateTableFileStoredKind ==
    \A id \in DOMAIN files, file_type \in WrittenTypes :
        LET r == UpdateTableFileResult([FileSchemaOf(id) EXCEPT !.file_type_ = file_type], FALSE)
        IN /\ r.status.code = "DB_SUCCESS"
           /\ id \in DOMAIN r.files
           /\ r.files[id].file_type_ =
                 IF IsNormal(files[id].table_id_) THEN file_type ELSE "TO_DELETE"

\* the one segment of a collection whose row the cleaner has removed was just updated
C3_Witness ==
    /\ last.op = "UpdateTableFile" /\ last.status.code = "DB_SUCCESS"
    /\ Cardinality(DOMAIN files) = 1
    /\ \A i \in DOMAIN files : /\ files[i].table_id_ \notin DOMAIN tables
                               /\ files[i].file_type_ = "TO_DELETE"
                               /\ files[i].updated_time_ = now
                               /\ now > StartTime

C5_CreateTableExisting ==
    [][last'.op = "CreateTable" =>
         \A table_id \in UserTableIds \cup {""}, throws \in BOOLEAN :
            CreateTable(table_id, throws) =>
               /\ (table_id \in DOMAIN tables /\ tables[table_id].state_ = "NORMAL")
                     => (last'.status.code = "DB_ALREADY_EXIST" /\ tables' = tables)
               /\ (table_id \in DOMAIN tables /\ tables[table_id].state_ = "TO_DELETE")
                     => (/\ last'.status = [code |-> "DB_ERROR",
                                            msg |-> "Table already exists and it is in delete state, please wait a second"]
                         /\ tables' = tables)
               /\ (table_id = "" /\ ~throws)
                     => /\ last'.status.code = "DB_SUCCESS"
                        /\ \E id \in DOMAIN tables' \ DOMAIN tables :
                              /\ DOMAIN tables' = DOMAIN tables \cup {id}
                              /\ id # ""
                              /\ tables'[id].table_id_ = id
                              /\ tables'[id].state_ = "NORMAL"
                        /\ \A i \in DOMAIN tables : tables'[i] = tables[i]]_vars

\* CreateTable was refused because the id is held by a row in delete state
C5_Witness ==
    /\ last.op = "CreateTable"
    /\ last.status.code = "DB_ERROR"
    /\ \E t \in UserTableIds : t \in DOMAIN tables /\ tables[t].state_ = "TO_DELETE"
    /\ \E t \in DOMAIN tables : t \notin UserTableIds

\* C6: DropTable is a soft delete and idempotent: it sets only that collection's state to
\* TO_DELETE, leaves every other collection row and every segment row unchanged, and on a
\* dropped or absent id it returns OK and changes nothing.
C6_DropTableSoftIdempotent ==
    [][last'.op = "DropTable" =>
         \A table_id \in TableIds :
            DropTable(table_id) =>
               /\ last'.status.code = "DB_SUCCESS"
               /\ files' = files
               /\ DOMAIN tables' = DOMAIN tables
               /\ \A i \in DOMAIN tables :
                     tables'[i] = IF i = table_id THEN [tables[i] EXCEPT !.state_ = "TO_DELETE"]
                                  ELSE tables[i]
               /\ (table_id \notin DOMAIN tables \/ tables[table_id].state_ = "TO_DELETE")
                     => tables' = tables]_vars

\* a collection was dropped while it holds a segment that is not TO_DELETE, beside a live one
C6_Witness ==
    /\ last.op = "DropTable"
    /\ \E t \in DOMAIN tables, u \in DOMAIN tables :
          /\ tables[t].state_ = "TO_DELETE" /\ tables[u].state_ = "NORMAL"
          /\ \E i \in DOMAIN files : files[i].table_id_ = t /\ files[i].file_type_ = "RAW"

\* C7: the reads never expose a TO_DELETE collection: DescribeTable and DescribeTableIndex
\* return NOT_FOUND for it, HasTable false, AllTables exactly the NORMAL rows with empty
\* owner, ShowPartitions(parent) exactly the NORMAL rows with owner = parent.
C7_ReadsHideDeleted ==
    /\ \A t \in TableIds :
          /\ (t \in DOMAIN tables /\ tables[t].state_ = "TO_DELETE") =>
                /\ DescribeTable(t).status.code = "DB_NOT_FOUND"
                /\ DescribeTableIndex(t).code = "DB_NOT_FOUND"
                /\ HasTable(t).has_or_not = FALSE
          /\ ShowPartitions(t).partition_schema_array =
                {tables[i] : i \in {j \in DOMAIN tables :
                                       tables[j].owner_table_ = t /\ tables[j].state_ = "NORMAL"}}
    /\ AllTables.table_schema_array =
          {tables[i] : i \in {j \in DOMAIN tables :
                                 tables[j].owner_table_ = "" /\ tables[j].state_ = "NORMAL"}}

\* a parent with a live and a dropped partition, and a dropped root collection
C7_Witness ==
    /\ \E i \in DOMAIN tables, j \in DOMAIN tables :
          /\ tables[i].owner_table_ # "" /\ tables[i].owner_table_ = tables[j].owner_table_
          /\ tables[i].state_ = "NORMAL" /\ tables[j].state_ = "TO_DELETE"
    /\ \E i \in DOMAIN tables : tables[i].owner_table_ = "" /\ tables[i].state_ = "TO_DELETE"

\* C8: no two NORMAL partitions of the same parent have the same tag after trimming, also
\* when two CreatePartition calls with the same parent and tag run concurrently.
C8_UniquePartitionTag ==
    \A i \in DOMAIN tables, j \in DOMAIN tables :
        (/\ i # j
         /\ tables[i].owner_table_ # "" /\ tables[i].owner_table_ = tables[j].owner_table_
         /\ tables[i].state_ = "NORMAL" /\ tables[j].state_ = "NORMAL")
        => TrimStringBlank(tables[i].partition_tag_) # TrimStringBlank(tables[j].partition_tag_)

\* the parent holds a NORMAL partition with the tag, trimmed
HasPartitionTagged(table_id, tag) ==
    \E i \in DOMAIN tables : /\ tables[i].owner_table_ = table_id
                             /\ tables[i].state_ = "NORMAL"
                             /\ TrimStringBlank(tables[i].partition_tag_) = TrimStringBlank(tag)

\* C9 as stated: CreatePartition on a parent that has a NORMAL partition with the same
\* trimmed tag returns ALREADY_EXIST and creates no collection row.
C9_DuplicateTagAlreadyExists ==
    [][last'.op = "CreatePartition" =>
         \A table_id \in TableIds, partition_name \in UserTableIds \cup {""}, tag \in RawTags,
            throws \in BOOLEAN :
            (CreatePartition(table_id, partition_name, tag, throws) /\ HasPartitionTagged(table_id, tag))
               => (last'.status.code = "DB_ALREADY_EXIST" /\ tables' = tables)]_vars

\* C9 amended: such a call creates no collection row and returns DB_ERROR (DB_NOT_FOUND when
\* the parent itself is dropped or absent), never ALREADY_EXIST; ALREADY_EXIST is returned
\* only when the partition name given is the id of a NORMAL collection.
C9_DuplicateTagRejected ==
    [][last'.op = "CreatePartition" =>
         \A table_id \in TableIds, partition_name \in UserTableIds \cup {""}, tag \in RawTags,
            throws \in BOOLEAN :
            CreatePartition(table_id, partition_name, tag, throws) =>
               /\ HasPartitionTagged(table_id, tag) =>
                     /\ tables' = tables
                     /\ last'.status.code = IF IsNormal(table_id) THEN "DB_ERROR" ELSE "DB_NOT_FOUND"
               /\ last'.status.code = "DB_ALREADY_EXIST" =>
                     /\ IsNormal(partition_name)
                     /\ tables' = tables]_vars

\* a second CreatePartition with a tag the parent already holds was turned away as a duplicate
C9_Witness ==
    /\ last.op = "CreatePartition"
    /\ last.status = [code |-> "DB_ERROR", msg |-> "Duplicate partition is not allowed"]
    /\ \E i \in DOMAIN tables : tables[i].owner_table_ # "" /\ tables[i].state_ = "NORMAL"

\* C10: CreatePartition under a partition is rejected and creates no row, so no partition
\* ever has a partition as its owner.
C10_NoNestedPartition ==
    \A i \in DOMAIN tables :
        (tables[i].owner_table_ # "" /\ tables[i].owner_table_ \in DOMAIN tables)
        => tables[tables[i].owner_table_].owner_table_ = ""

\* the rejection C10 starts from: a parent that is a partition is refused, no row is created
C10_NestedRejected ==
    [][last'.op = "CreatePartition" =>
         \A table_id \in TableIds, partition_name \in UserTableIds \cup {""}, tag \in RawTags,
            throws \in BOOLEAN :
            (/\ CreatePartition(table_id, partition_name, tag, throws)
             /\ IsNormal(table_id) /\ tables[table_id].owner_table_ # "")
               => /\ last'.status = [code |-> "DB_ERROR", msg |-> "Nested partition is not allowed"]
                  /\ tables' = tables]_vars

\* C11: every collection row with a non-empty owner has a parent row that exists in the
\* catalog and whose own owner is empty, after any sequence of CreatePartition, DropTable
\* on the parent and CleanUpFilesWithTTL.
C11_PartitionParentExists ==
    \A i \in DOMAIN tables :
        tables[i].owner_table_ # "" =>
           /\ tables[i].owner_table_ \in DOMAIN tables
           /\ tables[tables[i].owner_table_].owner_table_ = ""

\* C12: every partition row has a non-empty partition_tag: CreatePartition never persists
\* a partition whose tag is empty after trimming.
C12_PartitionTagNonEmpty ==
    \A i \in DOMAIN tables : tables[i].owner_table_ # "" => tables[i].partition_tag_ # <<>>
\* what CreateTableFile(file_schema) that found its collection has done, r being its result:
\* one row more, of the kind file_type, with a file_id no row had, in the segment the
\* caller named or in its own, empty, created and updated at one time, with the dimension
\* and the index of the parent; the rows there were are as they were
CreatedRow(file_schema, r, file_type) ==
    LET id == r.file_schema.id_
        parent == tables[file_schema.table_id_]
    IN /\ r.status.code = DB_SUCCESS
       /\ id \notin DOMAIN files
       /\ DOMAIN r.files = DOMAIN files \cup {id}
       /\ \A i \in DOMAIN files : r.files[i] = files[i]
       /\ r.files[id].table_id_ = file_schema.table_id_
       /\ r.files[id].file_type_ = file_type
       /\ \A i \in DOMAIN files : files[i].file_id_ # r.files[id].file_id_
       /\ r.files[id].segment_id_ = IF file_schema.segment_id_ = "" THEN r.files[id].file_id_
                                    ELSE file_schema.segment_id_
       /\ r.files[id].file_size_ = 0
       /\ r.files[id].row_count_ = 0
       /\ r.files[id].created_on_ = r.files[id].updated_time_
       /\ r.files[id].engine_type_ = parent.engine_type_
       /\ r.file_schema.dimension_ = parent.dimension_
       /\ r.file_schema.index_file_size_ = parent.index_file_size_
       /\ r.file_schema.index_params_ = parent.index_params_
       /\ r.file_schema.metric_type_ = parent.metric_type_

\* C13 as the specification states it: createSegment(collection, segment) persists a row
\* in kind NEW with a fresh file_id, segment_group_id the caller's or the new file_id,
\* bytes = 0, row_count = 0, created_at = updated_at and the parent's dimension and index
\* parameters; for a TO_DELETE or absent collection it returns NOT_FOUND and inserts nothing.
C13_CreateTableFilePersistsNew ==
    \A file_schema \in FileSchemas :
        LET r == CreateTableFileResult(file_schema, FALSE)
        IN IF IsNormal(file_schema.table_id_)
           THEN CreatedRow(file_schema, r, "NEW")
           ELSE r.status.code = DB_NOT_FOUND /\ r.files = files

\* C13, amended: the row CreateTableFile persists has the kind the caller put in the
\* segment it handed over (NEW, NEW_MERGE or NEW_INDEX), not NEW in every case; it has a
\* fresh file_id, segment_group_id the caller's or the new file_id, bytes = 0,
\* row_count = 0, created_at = updated_at and the parent's dimension and index parameters;
\* for a TO_DELETE or absent collection it returns NOT_FOUND and inserts nothing.
C13_CreateTableFilePersistsCallersKind ==
    \A file_schema \in FileSchemas :
        LET r == CreateTableFileResult(file_schema, FALSE)
        IN IF IsNormal(file_schema.table_id_)
           THEN CreatedRow(file_schema, r, file_schema.file_type_)
           ELSE r.status.code = DB_NOT_FOUND /\ r.files = files

\* CreateTableFile has just put a NEW_MERGE file into the segment of the NEW file before
\* it, which is in its own segment, while the other collection is dropped
C13_Witness ==
    /\ last.op = "CreateTableFile" /\ last.status.code = DB_SUCCESS
    /\ \E i, j \in DOMAIN files :
          /\ i < j
          /\ files[i].file_type_ = "NEW" /\ files[i].segment_id_ = files[i].file_id_
          /\ files[j].file_type_ = "NEW_MERGE" /\ files[j].segment_id_ = files[i].file_id_
          /\ files[j].file_id_ # files[i].file_id_
          /\ IsNormal(files[j].table_id_)
    /\ \E table_id \in DOMAIN tables : tables[table_id].state_ = TO_DELETE

\* C14: filesToMerge(collection) returns exactly the RAW segments of the collection whose
\* bytes are strictly smaller than its target_segment_size, largest first, a segment of
\* exactly the target size excluded; for a TO_DELETE or absent collection it returns
\* NOT_FOUND.
C14_FilesToMergeSmallRaw ==
    \A table_id \in UserTableIds : \A r \in FilesToMerge(table_id) :
        IF IsNormal(table_id)
        THEN /\ r.status.code = DB_SUCCESS
             /\ {r.files[k].id_ : k \in DOMAIN r.files} =
                    {i \in DOMAIN files : /\ files[i].table_id_ = table_id
                                          /\ files[i].file_type_ = "RAW"
                                          /\ files[i].file_size_ < tables[table_id].index_file_size_}
             /\ \A j, k \in DOMAIN r.files :
                    j < k => /\ r.files[j].id_ # r.files[k].id_
                             /\ r.files[j].file_size_ >= r.files[k].file_size_
             /\ \A k \in DOMAIN r.files : r.files[k] = FileSchemaOf(r.files[k].id_)
        ELSE r.status.code = DB_NOT_FOUND /\ r.files = <<>>

\* a collection holds a RAW file of the target size and, created before it, a smaller
\* one, while the other collection is dropped
C14_Witness ==
    \E table_id \in UserTableIds, i, j \in DOMAIN files :
        /\ IsNormal(table_id)
        /\ i < j
        /\ files[i].table_id_ = table_id /\ files[j].table_id_ = table_id
        /\ files[i].file_type_ = "RAW" /\ files[j].file_type_ = "RAW"
        /\ files[i].file_size_ < tables[table_id].index_file_size_
        /\ files[j].file_size_ = tables[table_id].index_file_size_
        /\ \E r \in FilesToMerge(table_id) : Len(r.files) = 1
        /\ \E other \in DOMAIN tables : tables[other].state_ = TO_DELETE

\* C15: filesToIndex() returns every TO_INDEX segment, across all collections, in every
\* catalog state, the states where a TO_INDEX segment belongs to a dropped collection
\* included.
C15_FilesToIndexAll ==
    \A r \in FilesToIndex :
        /\ r.status.code = DB_SUCCESS
        /\ {r.files[k].id_ : k \in DOMAIN r.files} =
               {i \in DOMAIN files : files[i].file_type_ = "TO_INDEX"}

\* C16: markTooSmallRawAsToIndex(collection) changes to TO_INDEX exactly the RAW segments
\* of the collection with row_count >= BUILD_INDEX_THRESHOLD; RAW segments below the
\* threshold, segments of other kinds and segments of other collections are unchanged.
C16_UpdateTableFilesToIndexExact ==
    \A table_id \in UserTableIds :
        LET r == UpdateTableFilesToIndexResult(table_id, FALSE)
        IN /\ r.status.code = DB_SUCCESS
           /\ DOMAIN r.files = DOMAIN files
           /\ \A i \in DOMAIN files :
                 IF /\ files[i].table_id_ = table_id
                    /\ files[i].file_type_ = "RAW"
                    /\ files[i].row_count_ >= BUILD_INDEX_THRESHOLD
                 THEN r.files[i] = [files[i] EXCEPT !.file_type_ = "TO_INDEX"]
                 ELSE r.files[i] = files[i]

\* UpdateTableFilesToIndex has just turned the file of BUILD_INDEX_THRESHOLD rows into
\* TO_INDEX and left the RAW file of one row less as it was
C16_Witness ==
    /\ last.op = "UpdateTableFilesToIndex" /\ last.status.code = DB_SUCCESS
    /\ \E i, j \in DOMAIN files :
          /\ files[i].table_id_ = files[j].table_id_
          /\ files[i].file_type_ = "TO_INDEX" /\ files[i].row_count_ = BUILD_INDEX_THRESHOLD
          /\ files[j].file_type_ = "RAW" /\ files[j].row_count_ = BUILD_INDEX_THRESHOLD - 1

\* C17: updateCollectionIndex on a NORMAL collection writes the engine type, the index
\* parameters and the metric to the row of the collection and turns exactly the BACKUP
\* segments of that collection into RAW; on a TO_DELETE or absent collection it returns
\* NOT_FOUND and changes nothing.
C17_UpdateTableIndexWrites ==
    \A table_id \in UserTableIds, index \in TableIndexes :
        LET r == UpdateTableIndexResult(table_id, index, 0)
        IN IF IsNormal(table_id)
           THEN /\ r.status.code = DB_SUCCESS
                /\ DOMAIN r.tables = DOMAIN tables
                /\ r.tables[table_id] =
                      [tables[table_id] EXCEPT !.engine_type_ = index.engine_type_,
                                               !.index_params_ = Dump(index.extra_params_),
                                               !.metric_type_ = index.metric_type_,
                                               !.flush_lsn_ = r.tables[table_id].flush_lsn_]
                /\ \A i \in DOMAIN tables \ {table_id} : r.tables[i] = tables[i]
                /\ DOMAIN r.files = DOMAIN files
                /\ \A i \in DOMAIN files :
                      IF files[i].table_id_ = table_id /\ files[i].file_type_ = "BACKUP"
                      THEN /\ r.files[i].file_type_ = "RAW"
                           /\ [r.files[i] EXCEPT !.file_type_ = "BACKUP",
                                                  !.updated_time_ = files[i].updated_time_] = files[i]
                      ELSE r.files[i] = files[i]
           ELSE /\ r.status.code = DB_NOT_FOUND
                /\ r.tables = tables
                /\ r.files = files

\* UpdateTableIndex has just given the collection an index and made its BACKUP file RAW,
\* the BACKUP file of the other, dropped collection left as it was
C17_Witness ==
    /\ last.op = "UpdateTableIndex" /\ last.status.code = DB_SUCCESS
    /\ \E i, j \in DOMAIN files :
          /\ IsNormal(files[i].table_id_)
          /\ tables[files[i].table_id_].index_params_ # "{}"
          /\ files[i].file_type_ = "RAW"
          /\ files[j].table_id_ # files[i].table_id_
          /\ files[j].table_id_ \in DOMAIN tables
          /\ tables[files[j].table_id_].state_ = TO_DELETE
          /\ tables[files[j].table_id_].index_params_ = "{}"
          /\ files[j].file_type_ = "BACKUP"

\* C18: dropCollectionIndex turns the INDEX segments of the collection into TO_DELETE and
\* its BACKUP segments into RAW (no INDEX segment ends RAW), leaves RAW, TO_INDEX and
\* shadow segments unchanged, and resets the engine type of the collection to the default
\* of its metric (binary flat for a binary metric, float flat otherwise) with empty
\* index parameters.
C18_DropTableIndexResets ==
    \A table_id \in UserTableIds :
        LET r == DropTableIndexResult(table_id, 0)
        IN /\ r.status.code = DB_SUCCESS
           /\ DOMAIN r.files = DOMAIN files
           /\ \A i \in DOMAIN files :
                 CASE files[i].table_id_ = table_id /\ files[i].file_type_ = "INDEX" ->
                        /\ r.files[i].file_type_ = "TO_DELETE"
                        /\ [r.files[i] EXCEPT !.file_type_ = "INDEX",
                                               !.updated_time_ = files[i].updated_time_] = files[i]
                   [] files[i].table_id_ = table_id /\ files[i].file_type_ = "BACKUP" ->
                        /\ r.files[i].file_type_ = "RAW"
                        /\ [r.files[i] EXCEPT !.file_type_ = "BACKUP",
                                               !.updated_time_ = files[i].updated_time_] = files[i]
                   [] OTHER -> r.files[i] = files[i]
           /\ DOMAIN r.tables = DOMAIN tables
           /\ \A i \in DOMAIN tables :
                 IF i = table_id
                 THEN r.tables[i] =
                         [tables[i] EXCEPT
                             !.engine_type_ = IF tables[i].metric_type_ \in {"HAMMING", "JACCARD", "TANIMOTO"}
                                              THEN "FAISS_BIN_IDMAP" ELSE "FAISS_IDMAP",
                             !.index_params_ = "{}"]
                 ELSE r.tables[i] = tables[i]

\* DropTableIndex has just taken the index from a collection of binary vectors, whose
\* INDEX file is now TO_DELETE, while the other collection keeps its index and its INDEX file
C18_Witness ==
    /\ last.op = "DropTableIndex" /\ last.status.code = DB_SUCCESS
    /\ \E i, j \in DOMAIN files :
          /\ IsNormal(files[i].table_id_) /\ IsNormal(files[j].table_id_)
          /\ files[i].table_id_ # files[j].table_id_
          /\ files[i].file_type_ = "TO_DELETE"
          /\ files[i].engine_type_ = "FAISS_BIN_IVFFLAT"
          /\ tables[files[i].table_id_].metric_type_ = "HAMMING"
          /\ tables[files[i].table_id_].engine_type_ = "FAISS_BIN_IDMAP"
          /\ tables[files[i].table_id_].index_params_ = "{}"
          /\ files[j].file_type_ = "INDEX"
          /\ tables[files[j].table_id_].index_params_ # "{}"

\* the files that count for the disk criterion
LiveFiles(rows) == {i \in DOMAIN rows : rows[i].file_type_ # "TO_DELETE"}

\* C19: archiveByDiskQuota(limit) marks segments TO_DELETE oldest first (ascending row id)
\* and stops as soon as the total bytes of the non-TO_DELETE segments is within the limit:
\* afterwards the total is <= limit, no segment younger than a surviving segment was
\* marked, and nothing is marked when the total was already within the limit.
C19_ArchiveByDiskOldestFirst ==
    \A limit \in ArchiveLimits :
        LET r == ArchiveResult([disk |-> limit], FALSE, FALSE, "none")
            marked == LiveFiles(files) \ LiveFiles(r.files)
            survivors == LiveFiles(r.files)
        IN /\ r.status.code = DB_SUCCESS /\ r.returns
           /\ DOMAIN r.files = DOMAIN files
           /\ survivors \subseteq LiveFiles(files)
           /\ \A i \in DOMAIN files \ marked : r.files[i] = files[i]
           /\ \A i \in marked : [r.files[i] EXCEPT !.file_type_ = files[i].file_type_,
                                                   !.updated_time_ = files[i].updated_time_] = files[i]
           /\ SumOfSizes(r.files, survivors) <= limit * G
           /\ \A i \in marked, j \in survivors : i < j
           /\ SumOfSizes(files, LiveFiles(files)) <= limit * G => marked = {}
           /\ marked # {} => SumOfSizes(files, LiveFiles(files) \ (marked \ {Max(marked)})) > limit * G

\* Archive has just marked the older of two files that together took more than the limit
\* and kept the younger, which fits
C19_Witness ==
    /\ last.op = "Archive" /\ last.status.code = DB_SUCCESS
    /\ \E i, j \in DOMAIN files :
          /\ i < j
          /\ files[i].file_type_ = "TO_DELETE" /\ files[j].file_type_ = "RAW"
          /\ files[i].updated_time_ > files[j].updated_time_
          /\ files[i].created_on_ = files[j].created_on_
          /\ files[i].file_size_ + files[j].file_size_ > G
          /\ files[j].file_size_ <= G

\* C20: cleanExpired(ttl) removes from the catalog exactly the segment rows that are
\* TO_DELETE, have updated_at older than now - ttl and are not registered in OngoingOps;
\* every other segment row (BACKUP rows, unexpired TO_DELETE rows, in-use TO_DELETE rows
\* and all rows of other kinds) is still present and unchanged afterwards.
C20_CleanUpRemovesExpiredToDelete ==
    \A seconds \in 0..MaxTTL, ignored \in SUBSET DOMAIN files :
        LET r == CleanUpFilesWithTTLResult(seconds, ignored, "none")
        IN /\ r.status.code = DB_SUCCESS
           /\ DOMAIN r.files \subseteq DOMAIN files
           /\ DOMAIN files \ DOMAIN r.files =
                 {i \in DOMAIN files : /\ files[i].file_type_ = "TO_DELETE"
                                       /\ files[i].updated_time_ < now - seconds * US_PS
                                       /\ i \notin ignored}
           /\ \A i \in DOMAIN r.files : r.files[i] = files[i]

\* CleanUpFilesWithTTL has just removed the first file and kept the second, a BACKUP file
\* last written before the first was marked TO_DELETE
C20_Witness ==
    /\ last.op = "CleanUpFilesWithTTL" /\ last.status.code = DB_SUCCESS
    /\ DOMAIN files = {2}
    /\ files[2].file_type_ = "BACKUP"
    /\ files[2].updated_time_ < now
    /\ IsNormal(files[2].table_id_)

\* ------------------------------------------------------------------ lsn workload
\* collections, partitions created at an lsn, the flush lsn and flag of a collection, its
\* index, the global lsn, and DropAll followed by the restart that brings the tables back;
\* while the tables are dropped every statement on them raises and changes nothing
NextLsn ==
    \/ \E table_id \in UserTableIds : synced /\ CreateTable(table_id, FALSE)
    \/ synced /\ DropTable("a")
    \/ \E lsn \in Lsns : synced /\ CreatePartitionOf("a", "", <<"p">>, lsn, FALSE)
    \/ \E table_id \in UserTableIds, flush_lsn \in Lsns, throws \in BOOLEAN :
          synced /\ UpdateTableFlushLSN(table_id, flush_lsn, throws)
    \/ \E flag \in Flags, throws \in BOOLEAN : synced /\ UpdateTableFlag("a", flag, throws)
    \/ \E index \in TableIndexes : synced /\ UpdateTableIndex("a", index, 0)
    \/ synced /\ DropTableIndex("a", 0)
    \/ \E lsn \in Lsns, throws \in BOOLEAN : SetGlobalLastLSN(lsn, throws)
    \/ \E throw_at \in 0..2 : DropAll(throw_at)
    \/ \E failure \in ShadowFailures : Initialize(failure)

SpecLsn == Init /\ [][NextLsn]_vars

\* C24: the flush_lsn stored for a collection never decreases, whatever operation runs:
\* setCollectionFlushLsn, updateCollectionIndex, dropCollectionIndex, the flag update.
C24_FlushLsnNeverDecreases ==
    [][\A i \in DOMAIN tables \cap DOMAIN tables' :
          tables'[i].flush_lsn_ >= tables[i].flush_lsn_]_vars

\* C25: in every reachable state the flush_lsn of each collection is at most the global
\* last lsn (0 while META_ENVIRONMENT has no row).
C25_FlushLsnAtMostGlobal ==
    \A i \in DOMAIN tables : tables[i].flush_lsn_ <= GetGlobalLastLSN.lsn

\* C26: what getGlobalLsn returns never decreases, across setGlobalLsn calls, dropAll
\* and restarts.
C26_GlobalLsnNeverDecreases ==
    [][GetGlobalLastLSN'.lsn >= GetGlobalLastLSN.lsn]_vars

\* ---------------------------------------------------------- interleaved workload
\* calls that read and then write, run statement by statement by two threads, next to
\* calls that are one statement
NextInterleaved ==
    \/ CreateTable("a", FALSE)
    \/ DropTable("a")
    \/ \E t \in Threads :
          CreateTableFileDescribe(t, [table_id_ |-> "a", file_type_ |-> "NEW", segment_id_ |-> ""])
    \/ \E t \in Threads : CreateTableFileInsert(t, FALSE)
    \/ \E t \in Threads, lsn \in Lsns : SetGlobalLastLSNSelect(t, lsn)
    \/ \E t \in Threads, throws \in BOOLEAN : SetGlobalLastLSNCommit(t, throws)
    \/ \E flush_lsn \in Lsns : UpdateTableFlushLSN("a", flush_lsn, FALSE)

SpecInterleaved == Init /\ [][NextInterleaved]_vars

\* C27: META_ENVIRONMENT holds at most one row in every reachable state, two setGlobalLsn
\* calls running side by side on the empty table included.
C27_EnvironmentSingleRow == Len(environment) <= 1

\* C28: catalog mutations are serialized: while a call is between its check and its
\* write, no other call changes the catalog.
C28_MutationsSerialized ==
    [][\A t \in Threads :
          (cp[t].stage # "idle" /\ cp'[t] = cp[t]) =>
              <<tables, files, environment>>' = <<tables, files, environment>>]_vars

\* ------------------------------------------------------------ multi-row workload
\* one collection, its files, and the calls that write more than one row, each with the
\* statement that raises, if any
NextMultiRow ==
    \/ CreateTable("a", FALSE)
    \/ CreateTableFile("a", "NEW")
    \/ \E id \in 1..MaxFileRowId, file_type \in {"INDEX", "BACKUP"} : UpdateTableFile(id, file_type, FALSE)
    \/ \E batch \in RowCountBatches : \E fail_at \in 0..Len(batch) :
          UpdateTableFilesRowCount(batch, fail_at)
    \/ \E index \in TableIndexes, throw_at \in 0..2 : UpdateTableIndex("a", index, throw_at)
    \/ \E throw_at \in 0..4 : DropTableIndex("a", throw_at)

SpecMultiRow == Init /\ [][NextMultiRow]_vars

\* C29: an operation that changes more than one row is atomic: when it fails part-way
\* (a statement raises), none of its row changes is visible: updateSegments, the batch
\* row-count update, updateCollectionIndex, dropCollectionIndex.
C29_MultiRowAtomic ==
    /\ \A batch \in Batches : \A fail_at \in 1..Len(batch) :
          UpdateTableFilesResult(batch, fail_at, TRUE).files = files
    /\ \A batch \in RowCountBatches : \A fail_at \in 1..Len(batch) :
          UpdateTableFilesRowCountResult(batch, fail_at).files = files
    /\ \A index \in TableIndexes, throw_at \in 1..2 :
          LET r == UpdateTableIndexResult("a", index, throw_at)
          IN r.status.code # DB_SUCCESS => (r.tables = tables /\ r.files = files)
    /\ \A throw_at \in 1..4 :
          LET r == DropTableIndexResult("a", throw_at)
          IN r.status.code # DB_SUCCESS => (r.tables = tables /\ r.files = files)

\* ---------------------------------------------------------------- grace workload
\* one collection and its files, every call that makes a file TO_DELETE, the cleaner, and
\* a clock that runs long enough for a file to be older than the largest ttl
NextGrace ==
    \/ CreateTable("a", FALSE)
    \/ DropTable("a")
    \/ CreateTableFile("a", "NEW")
    \/ \E id \in 1..MaxFileRowId, file_type \in {"RAW", "INDEX", "TO_DELETE"} :
          UpdateTableFile(id, file_type, FALSE)
    \/ DeleteTableFiles("a")
    \/ DropTableIndex("a", 0)
    \/ \E limit \in ArchiveLimits : Archive([c \in {"days"} |-> limit], FALSE, FALSE, "none")
    \/ \E seconds \in 0..MaxTTL : CleanUpFilesWithTTL(seconds, {}, "none")
    \/ TickWithin(MaxTicks + MaxTTL)

SpecGrace == Init /\ [][NextGrace]_vars

\* the rows of META_TABLEFILES after each call that can make a file TO_DELETE
ToDeleteTransitions ==
    {DeleteTableFilesResult(table_id) : table_id \in UserTableIds}
    \cup {DropTableIndexResult(table_id, 0).files : table_id \in UserTableIds}
    \cup {UpdateTableFileResult([FileSchemaOf(id) EXCEPT !.file_type_ = file_type], FALSE).files :
             id \in DOMAIN files, file_type \in {"RAW", "TO_DELETE"}}
    \cup {ArchiveResult([c \in {"days"} |-> limit], FALSE, FALSE, "none").files : limit \in ArchiveLimits}

\* C23: a file that a call has just made TO_DELETE is kept for the grace period: a
\* CleanUpFilesWithTTL(ttl) with ttl >= 1 second that runs right after the transition does
\* not remove it, whichever call made it TO_DELETE (DeleteTableFiles, DropTableIndex,
\* UpdateTableFile and its coercion, Archive by age).
C23_ToDeleteGracePeriod ==
    \A after \in ToDeleteTransitions, seconds \in 1..MaxTTL :
        \A i \in DOMAIN files :
            (files[i].file_type_ # "TO_DELETE" /\ after[i].file_type_ = "TO_DELETE")
                => i \notin ToRemove(after, seconds, {})

\* -------------------------------------------------------------- restart workload
\* one collection, files of every kind a caller creates, written or left as they were
\* created, and the restart of the process
NextRestart ==
    \/ CreateTable("a", FALSE)
    \/ DropTable("a")
    \/ \E file_type \in CreatedKinds : CreateTableFile("a", file_type)
    \/ \E id \in 1..MaxFileRowId, file_type \in {"RAW", "TO_INDEX", "BACKUP", "TO_DELETE"} :
          UpdateTableFile(id, file_type, FALSE)
    \/ \E failure \in ShadowFailures : Initialize(failure)

SpecRestart == Init /\ [][NextRestart]_vars

\* the catalog r that Initialize leaves holds no NEW, NEW_MERGE or NEW_INDEX file, and
\* every file of another kind and every collection as it was
NoShadowFilesAfter(r) ==
    /\ r.status.code = DB_SUCCESS
    /\ \A i \in DOMAIN r.files : r.files[i].file_type_ \notin {"NEW", "NEW_MERGE", "NEW_INDEX"}
    /\ \A i \in DOMAIN files :
          files[i].file_type_ \notin {"NEW", "NEW_MERGE", "NEW_INDEX"}
              => (i \in DOMAIN r.files /\ r.files[i] = files[i])
    /\ r.tables = tables

C22_CleanUpIdempotent ==
    \A seconds \in 0..MaxTTL, ignored \in SUBSET DOMAIN files :
        LET once == CleanUpFilesWithTTLResult(seconds, ignored, "none")
            twice == CleanUpFilesOn(once.files, once.tables, once.blobs,
                                    ToRemove(once.files, seconds, ignored), "none")
        IN /\ twice.status.code = DB_SUCCESS
           /\ twice.files = once.files
           /\ twice.tables = once.tables

\* CleanUpFilesWithTTL has just removed the first file and the dropped collection and kept
\* the second file, which is TO_DELETE and not yet expired
C22_Witness ==
    /\ last.op = "CleanUpFilesWithTTL" /\ last.status.code = DB_SUCCESS
    /\ DOMAIN files = {2}
    /\ files[2].file_type_ = "TO_DELETE"
    /\ files[2].updated_time_ = now
    /\ tables = <<>>

\* --------------------------------------------------------------- in-use workload
\* one collection, its files and their segment files on disk, queries that hold files in
\* OngoingFileChecker, and the cleaner run statement by statement; the calls that lock
\* meta_mutex_ wait while the cleaner holds it
NextOngoing ==
    \/ MutexFree /\ CreateTable("a", FALSE)
    \/ MutexFree /\ CreateTableFile("a", "NEW")
    \/ \E id \in 1..MaxFileRowId : WriteSegmentFile(id)
    \/ \E id \in 1..MaxFileRowId : MutexFree /\ UpdateTableFile(id, "RAW", FALSE)
    \/ MutexFree /\ DeleteTableFiles("a")
    \/ \E t \in Threads : QueryGather(t, "a")
    \/ \E t \in Threads : MarkOngoingFiles(t)
    \/ \E t \in Threads : UnmarkOngoingFiles(t)
    \/ \E t \in Threads, seconds \in 0..MaxTTL : CleanUpSelect(t, seconds)
    \/ \E t \in Threads : CleanUpCheck(t)
    \/ \E t \in Threads : CleanUpRemove(t)
    \/ \E t \in Threads : CleanUpCommit(t, "none")
    \/ Tick

SpecOngoing == Init /\ [][NextOngoing]_vars

Opened == last.op = "Initialize" => last.status.code = DB_SUCCESS

\* one collection, its files, the global lsn, and the process opening storage files
\* written by any version
NextOpen ==
    \/ /\ Opened
       /\ \/ CreateTable("a", FALSE)
          \/ \E file_type \in CreatedKinds : CreateTableFile("a", file_type)
          \/ \E id \in 1..MaxFileRowId : UpdateTableFile(id, "RAW", FALSE)
          \/ \E lsn \in Lsns : SetGlobalLastLSN(lsn, FALSE)
          \/ DropAll(0)
    \/ \E simulate \in Simulations, failure \in ShadowFailures : InitializeOf(simulate, failure)

SpecOpen == Init /\ [][NextOpen]_vars

\* C31: when the stored schema of the collections table or of the segments table would be
\* dropped and recreated, initialization fails with DB_INCOMPATIB_META and every stored
\* row is as it was: no schema sync and no clean-up of shadow files has run.
C31_IncompatibleMetaLeavesRows ==
    \A simulate \in Simulations, failure \in ShadowFailures :
        (simulate.tables = "dropped_and_recreated" \/ simulate.files = "dropped_and_recreated")
            => LET r == InitializeOn(simulate, failure)
               IN /\ r.status.code = DB_INCOMPATIB_META
                  /\ r.files = files
                  /\ r.tables = tables
                  /\ r.environment = environment
                  /\ r.synced = synced

\* an open has just failed on an incompatible schema with a shadow file, a collection and
\* a global lsn in the storage file
C31_Witness ==
    /\ last.op = "Initialize"
    /\ last.status.code = DB_INCOMPATIB_META
    /\ \E i \in DOMAIN files : files[i].file_type_ = "NEW"
    /\ "a" \in DOMAIN tables
    /\ Len(environment) = 1

\* C32: Size() returns the sum of file_size_ over exactly the files of kind RAW, TO_INDEX
\* or INDEX: files of kind NEW, NEW_MERGE, NEW_INDEX, BACKUP or TO_DELETE add nothing.
C32_SizeSumsVisible ==
    Size(files, FALSE) = SumOfSizes(files, {i \in DOMAIN files : files[i].file_type_ \in VisibleTypes})

\* ------------------------------------------------- DBImpl::SimpleWaitNotify
\* One SimpleWaitNotify object. Each step below is one critical section under mutex_
\* (cv_.wait and cv_.wait_until release mutex_ and block in one atomic step), so mutex_
\* is free between steps and is not a variable.

\* the time points a caller of Wait_Until passes: now or earlier, and later
Deadlines == {StartTime + k * US_PS : k \in 0..MaxTicks}

\* Wait and Wait_Until entering without looking at notified_
ParkAlways(t, op, tm_pint) ==
    /\ cp[t].stage = "idle"
    /\ cp' = [cp EXCEPT ![t] = [stage |-> "waiting", op |-> op, until |-> tm_pint]]
    /\ UNCHANGED <<tables, files, nextId, now, last, environment, blobs, synced, notified_, index_>>

\* Wait() and Wait_Until(tm_pint) up to cv_.wait / cv_.wait_until: with notified_ set the
\* call does not park, clears notified_ and returns; otherwise it parks
Park(t, op, tm_pint) ==
    /\ cp[t].stage = "idle"
    /\ IF notified_
       THEN /\ notified_' = FALSE
            /\ last' = [op |-> op, status |-> StatusOK, parked |-> FALSE, notified |-> TRUE,
                        until |-> tm_pint, returned |-> now]
            /\ UNCHANGED cp
       ELSE /\ cp' = [cp EXCEPT ![t] = [stage |-> "waiting", op |-> op, until |-> tm_pint]]
            /\ UNCHANGED <<last, notified_, index_>>
    /\ UNCHANGED <<tables, files, nextId, now, environment, blobs, synced, index_>>

Wait(t) == Park(t, "Wait", 0)

Wait_Until(t, tm_pint) == Park(t, "Wait_Until", tm_pint)

\* Notify() up to lck.unlock(): notified_ = true
Notify(t) ==
    /\ cp[t].stage = "idle"
    /\ notified_' = TRUE
    /\ cp' = [cp EXCEPT ![t] = [stage |-> "notifying"]]
    /\ UNCHANGED <<tables, files, nextId, now, last, environment, blobs, synced, index_>>

\* cv_.notify_one(): one of the parked threads, if there is any, is woken
NotifyOne(t) ==
    /\ cp[t].stage = "notifying"
    /\ LET parked == {w \in Threads : cp[w].stage = "waiting"}
       IN IF parked = {}
          THEN cp' = [cp EXCEPT ![t] = [stage |-> "idle"]]
          ELSE \E w \in parked :
                  cp' = [cp EXCEPT ![t] = [stage |-> "idle"], ![w].stage = "woken"]
    /\ last' = [op |-> "Notify", status |-> StatusOK]
    /\ UNCHANGED <<tables, files, nextId, now, environment, blobs, synced, notified_, index_>>

\* std::condition_variable: a parked thread may be unblocked spuriously
SpuriousWakeup(t) ==
    /\ cp[t].stage = "waiting"
    /\ cp' = [cp EXCEPT ![t].stage = "woken"]
    /\ UNCHANGED <<tables, files, nextId, now, last, environment, blobs, synced, notified_, index_>>

\* cv_.wait_until: the thread is unblocked when tm_pint is reached
Timeout(t) ==
    /\ cp[t].stage = "waiting"
    /\ cp[t].op = "Wait_Until"
    /\ now >= cp[t].until
    /\ cp' = [cp EXCEPT ![t].stage = "woken"]
    /\ UNCHANGED <<tables, files, nextId, now, last, environment, blobs, synced, notified_, index_>>

\* the unblocked thread has mutex_ again: notified_ = false, and the call returns
WaitReturn(t) ==
    /\ cp[t].stage = "woken"
    /\ notified_' = FALSE
    /\ cp' = [cp EXCEPT ![t] = [stage |-> "idle"]]
    /\ last' = [op |-> cp[t].op, status |-> StatusOK, parked |-> TRUE, notified |-> notified_,
                until |-> cp[t].until, returned |-> now]
    /\ UNCHANGED <<tables, files, nextId, now, environment, blobs, synced, index_>>

\* threads waiting on and notifying one SimpleWaitNotify while the clock runs
NextNotify ==
    \/ \E t \in Threads : Wait(t)
    \/ \E t \in Threads, tm_pint \in Deadlines : Wait_Until(t, tm_pint)
    \/ \E t \in Threads : Notify(t)
    \/ \E t \in Threads : NotifyOne(t)
    \/ \E t \in Threads : SpuriousWakeup(t)
    \/ \E t \in Threads : Timeout(t)
    \/ \E t \in Threads : WaitReturn(t)
    \/ Tick

SpecNotify == Init /\ [][NextNotify]_vars

\* C33: SimpleWaitNotify does not lose a notification and consumes it on wake: a Wait()
\* or Wait_Until() entered while notified_ is set returns without parking; notified_,
\* once set by Notify(), is cleared by nothing but a returning wait; every return of a
\* wait leaves notified_ false; and a Notify() on a set notified_ changes nothing, so
\* that the wait entered after a return parks however many Notify() calls came before.
C33_NotificationKeptAndConsumed ==
    [][/\ \A t \in Threads : Notify(t) => notified_'
       /\ \A t \in Threads, tm_pint \in Deadlines :
             (notified_ /\ (Wait(t) \/ Wait_Until(t, tm_pint)))
                 => (cp'[t].stage = "idle" /\ last'.parked = FALSE /\ ~notified_')
       /\ (notified_ /\ ~notified_')
             => \E t \in Threads :
                   \/ cp[t].stage = "woken" /\ cp'[t].stage = "idle"
                   \/ cp[t].stage = "idle" /\ cp'[t].stage = "idle"
                        /\ last'.op \in {"Wait", "Wait_Until"} /\ last'.parked = FALSE
       /\ \A t \in Threads : WaitReturn(t) => ~notified_'
       /\ \A t \in Threads, tm_pint \in Deadlines :
             (~notified_ /\ (Wait(t) \/ Wait_Until(t, tm_pint))) => cp'[t].stage = "waiting"
      ]_vars

\* a wait has just returned without parking on a notification issued while no thread was
\* waiting, and the notification is consumed
C33_Witness ==
    /\ last.op = "Wait"
    /\ last.parked = FALSE
    /\ ~notified_
    /\ \A t \in Threads : cp[t].stage \in {"idle", "notifying"}

\* C39: Wait() returns only when a Notify() has occurred since the last return of a wait
\* (notified_ is set when it returns), and Wait_Until() only then or when its time point
\* has passed: no wait returns on a wake-up that no Notify() caused.
C39_ReturnsOnlyWhenNotified ==
    last.op \in {"Wait", "Wait_Until"}
        => \/ last.notified
           \/ last.op = "Wait_Until" /\ last.until <= last.returned

\* ------------------------------------------------- knowhere::IDMAP and its blacklist
\* the ids of the base dataset: 0 .. nb - 1
VectorIds == 0..(NumVectors - 1)

\* the vector stored under an id: distinct points of a line
Vector(id) == 2 * id

\* the query vectors: the stored points and the points between and around them
Queries == 0..(2 * NumVectors)

TopKs == 1..NumVectors

\* L2 distance of two points (squared)
L2sqr(x, y) == (x - y) * (x - y)

\* the vectors a search looks at when the blacklist is not applied
Unmasked(index) == index.xb

\* the vectors a search looks at: those added whose bit is not set in the blacklist
Masked(index) == index.xb \ index.bitset

RECURSIVE Nearest(_, _, _)
\* the k nearest of the candidates, nearest first (the smaller id on a tie), filled up
\* with -1 when there are fewer than k
Nearest(candidates, x, k) ==
    IF k = 0 THEN <<>>
    ELSE IF candidates = {} THEN <<-1>> \o Nearest({}, x, k - 1)
    ELSE LET best == CHOOSE c \in candidates :
                        \A o \in candidates :
                            \/ L2sqr(Vector(c), x) < L2sqr(Vector(o), x)
                            \/ L2sqr(Vector(c), x) = L2sqr(Vector(o), x) /\ c <= o
         IN <<best>> \o Nearest(candidates \ {best}, x, k - 1)

\* index_->Search(query_dataset, conf): the ids of the k nearest vectors
Search(x, k) == [status |-> StatusOK, ids |-> Nearest(Masked(index_), x, k)]

\* index_->GetVectorById(xid_dataset, conf): the stored vector, or nothing for an id that
\* is blacklisted or was never added
GetVectorById(id) ==
    IF id \in Masked(index_)
    THEN [status |-> StatusOK, vector |-> <<Vector(id)>>]
    ELSE [status |-> Status(DB_NOT_FOUND, "Vector not found"), vector |-> <<>>]

\* index_->SearchById(id_dataset, conf): the vector is read with GetVectorById and then
\* searched for
SearchById(id, k) ==
    LET got == GetVectorById(id)
    IN IF got.status.code = DB_SUCCESS
       THEN Search(got.vector[1], k)
       ELSE [status |-> got.status, ids |-> Nearest({}, 0, k)]

\* index_->Train(conf); index_->Add(base_dataset, conf)
Add(ids) ==
    /\ index_' = [index_ EXCEPT !.xb = @ \cup ids]
    /\ last' = [op |-> "Add", status |-> StatusOK]
    /\ UNCHANGED <<tables, files, nextId, now, cp, environment, blobs, synced, notified_>>

\* concurrent_bitset_ptr->set(i) for the ids bits; index_->SetBlacklist(concurrent_bitset_ptr)
SetBlacklist(bits) ==
    /\ index_' = [index_ EXCEPT !.bitset = bits]
    /\ last' = [op |-> "SetBlacklist", status |-> StatusOK]
    /\ UNCHANGED <<tables, files, nextId, now, cp, environment, blobs, synced, notified_>>

\* the three reads of the test, their results kept
SearchCall(x, k) ==
    /\ last' = [op |-> "Search", status |-> Search(x, k).status, ids |-> Search(x, k).ids, x |-> x]
    /\ UNCHANGED <<tables, files, nextId, now, cp, environment, blobs, synced, notified_, index_>>

SearchByIdCall(id, k) ==
    /\ last' = [op |-> "SearchById", status |-> SearchById(id, k).status,
                ids |-> SearchById(id, k).ids, id |-> id]
    /\ UNCHANGED <<tables, files, nextId, now, cp, environment, blobs, synced, notified_, index_>>

GetVectorByIdCall(id) ==
    /\ last' = [op |-> "GetVectorById", status |-> GetVectorById(id).status,
                vector |-> GetVectorById(id).vector, id |-> id]
    /\ UNCHANGED <<tables, files, nextId, now, cp, environment, blobs, synced, notified_, index_>>

\* an index filled, blacklisted and read as in idmap_basic
NextBlacklist ==
    \/ \E ids \in SUBSET VectorIds : Add(ids)
    \/ \E bits \in SUBSET VectorIds : SetBlacklist(bits)
    \/ \E x \in Queries, k \in TopKs : SearchCall(x, k)
    \/ \E id \in VectorIds, k \in TopKs : SearchByIdCall(id, k)
    \/ \E id \in VectorIds : GetVectorByIdCall(id)

SpecBlacklist == Init /\ [][NextBlacklist]_vars

\* C34: once an id is set in the blacklist given to an index, no Search and no SearchById
\* returns that id, whatever the query and k, and GetVectorById for that id does not
\* return the stored vector.
C34_BlacklistedIdOmitted ==
    \A id \in index_.bitset :
        /\ \A x \in Queries, k \in TopKs : \A n \in 1..k : Search(x, k).ids[n] # id
        /\ \A other \in VectorIds, k \in TopKs : \A n \in 1..k : SearchById(other, k).ids[n] # id
        /\ GetVectorById(id).vector # <<Vector(id)>>

\* a search for a stored vector whose id is blacklisted has just returned another vector
\* as the nearest
C34_Witness ==
    /\ last.op = "Search"
    /\ \E id \in index_.bitset \cap index_.xb : last.x = Vector(id)
    /\ last.ids[1] \in index_.xb

\* ------------------------------------------------- faiss ScalarQuantizerDC_avx512
\* ScalarQuantizer::QuantizerType
QuantizerTypes ==
    {"QT_8bit", "QT_4bit", "QT_8bit_uniform", "QT_4bit_uniform", "QT_fp16", "QT_8bit_direct", "QT_6bit"}

Dims == 1..MaxDim

\* what the build defines: USE_AVX with __AVX__, USE_AVX_512 with __AVX512F__, __AVX512DQ__
\* and __AVX512BW__ (a target with AVX-512 has AVX)
Builds == {b \in [USE_AVX : BOOLEAN, USE_AVX_512 : BOOLEAN] : b.USE_AVX_512 => b.USE_AVX}

\* select_distance_computer_avx512<Sim>(qtype, dim, trained): the computer of the
\* quantizer type built on the similarity Sim = similarity<SIMDWIDTH>
select_distance_computer_avx512(similarity, simdwidth, qtype, dim) ==
    [similarity |-> similarity, simdwidth |-> simdwidth, qtype |-> qtype, dim |-> dim]

sq_get_distance_computer_L2_avx512(build, qtype, dim) ==
    IF build.USE_AVX_512 /\ dim % 16 = 0
    THEN select_distance_computer_avx512("SimilarityL2_avx512", 16, qtype, dim)
    ELSE IF build.USE_AVX /\ dim % 8 = 0
    THEN select_distance_computer_avx512("SimilarityL2_avx512", 8, qtype, dim)
    ELSE select_distance_computer_avx512("SimilarityL2_avx512", 1, qtype, dim)

sq_get_distance_computer_IP_avx512(build, qtype, dim) ==
    IF build.USE_AVX_512 /\ dim % 16 = 0
    THEN select_distance_computer_avx512("SimilarityL2_avx512", 16, qtype, dim)
    ELSE IF build.USE_AVX /\ dim % 8 = 0
    THEN select_distance_computer_avx512("SimilarityIP_avx512", 8, qtype, dim)
    ELSE select_distance_computer_avx512("SimilarityIP_avx512", 1, qtype, dim)

\* a caller asks for the distance computer of a metric
GetDistanceComputerL2(build, qtype, dim) ==
    /\ last' = [op |-> "sq_get_distance_computer", status |-> StatusOK, metric |-> "L2",
                build |-> build, dc |-> sq_get_distance_computer_L2_avx512(build, qtype, dim)]
    /\ UNCHANGED <<tables, files, nextId, now, cp, environment, blobs, synced, notified_, index_>>

GetDistanceComputerIP(build, qtype, dim) ==
    /\ last' = [op |-> "sq_get_distance_computer", status |-> StatusOK, metric |-> "IP",
                build |-> build, dc |-> sq_get_distance_computer_IP_avx512(build, qtype, dim)]
    /\ UNCHANGED <<tables, files, nextId, now, cp, environment, blobs, synced, notified_, index_>>

\* distance computers asked for every quantizer type, dimension and build
NextKernel ==
    \/ \E build \in Builds, qtype \in QuantizerTypes, dim \in Dims :
          GetDistanceComputerL2(build, qtype, dim)
    \/ \E build \in Builds, qtype \in QuantizerTypes, dim \in Dims :
          GetDistanceComputerIP(build, qtype, dim)

SpecKernel == Init /\ [][NextKernel]_vars

\* C40: the distance computer returned for a metric is built on the similarity of that
\* metric, for the quantizer type and the dimension asked for, and the dimension selects
\* only the SIMD width: 16 when dim % 16 = 0 with AVX-512, else 8 when dim % 8 = 0 with
\* AVX, else 1.
C40_DispatchPreservesMetric ==
    last.op = "sq_get_distance_computer"
        => /\ last.dc.similarity = (IF last.metric = "IP" THEN "SimilarityIP_avx512"
                                                          ELSE "SimilarityL2_avx512")
           /\ last.dc.simdwidth = (IF last.build.USE_AVX_512 /\ last.dc.dim % 16 = 0 THEN 16
                                   ELSE IF last.build.USE_AVX /\ last.dc.dim % 8 = 0 THEN 8
                                   ELSE 1)

\* C35: a file whose kind is TO_DELETE keeps that kind for as long as its row exists: no
\* call writes another kind over it, and the only way out of TO_DELETE is the removal of
\* the row by CleanUpFilesWithTTL.
C35_ToDeleteIsFinal ==
    [][\A i \in DOMAIN files :
          files[i].file_type_ = "TO_DELETE"
              => (i \notin DOMAIN files' \/ files'[i].file_type_ = "TO_DELETE")]_vars

\* C36: CleanUpFilesWithTTL keeps the catalog referentially intact: every file that is
\* left when it has returned belongs to a collection that is still there if it was there
\* before, so a TO_DELETE collection is removed only when none of its files remains.
C36_CleanUpKeepsReferences ==
    \A seconds \in 0..MaxTTL :
        \A ignored \in SUBSET ExpiredFiles(seconds) :
            LET r == CleanUpFilesWithTTLResult(seconds, ignored, "none")
            IN \A i \in DOMAIN r.files :
                  files[i].table_id_ \in DOMAIN tables => r.files[i].table_id_ \in DOMAIN r.tables

\* ---------------------------------------------------------------- commit workload
\* one collection, its files written to disk and retired, and a cleaner whose removal of
\* the files may fail to commit
NextCommit ==
    \/ CreateTable("a", FALSE)
    \/ CreateTableFile("a", "NEW")
    \/ \E id \in 1..MaxFileRowId : WriteSegmentFile(id)
    \/ \E id \in 1..MaxFileRowId, file_type \in {"RAW", "BACKUP", "TO_DELETE"} :
          UpdateTableFile(id, file_type, FALSE)
    \/ \E seconds \in 0..MaxTTL, failure \in {"none", "files_commit"} :
          CleanUpFilesWithTTL(seconds, {}, failure)
    \/ Tick

SpecCommit == Init /\ [][NextCommit]_vars

\* C37: when the transaction that removes the files in CleanUpFilesWithTTL fails to
\* commit, no file whose row is still in the catalog after the call has lost its segment
\* file on disk.
C37_FailedCommitKeepsBlobs ==
    \A seconds \in 0..MaxTTL :
        \A ignored \in SUBSET ExpiredFiles(seconds) :
            LET r == CleanUpFilesWithTTLResult(seconds, ignored, "files_commit")
            IN \A i \in DOMAIN r.files :
                  (i \in DOMAIN files /\ files[i].file_id_ \in blobs) => r.files[i].file_id_ \in r.blobs

\* C37, amended: when the transaction that removes the files fails to commit, every row
\* is as it was, and a segment file erased by the call belongs to a row that is TO_DELETE,
\* older than the ttl and not in use: no row of another kind loses its file. The same
\* clean-up run again, its commit going through, removes every such row.
C37_FailedCommitErasesOnlyToDelete ==
    \A seconds \in 0..MaxTTL :
        \A ignored \in SUBSET ExpiredFiles(seconds) :
            LET r == CleanUpFilesWithTTLResult(seconds, ignored, "files_commit")
                again == CleanUpFilesOn(r.files, r.tables, r.blobs,
                                        ToRemove(r.files, seconds, ignored), "none")
            IN /\ r.files = files
               /\ r.status.code # DB_SUCCESS
               /\ r.blobs \subseteq blobs
               /\ \A i \in DOMAIN files :
                     (files[i].file_id_ \in blobs \ r.blobs)
                         => /\ files[i].file_type_ = "TO_DELETE"
                            /\ files[i].updated_time_ < now - seconds * US_PS
                            /\ i \notin ignored
                            /\ i \notin DOMAIN again.files

\* a clean-up whose commit failed has just returned: the TO_DELETE file is still in the
\* catalog and its segment file is gone, the BACKUP file of the same age has kept its own
C37_Witness ==
    /\ last.op = "CleanUpFilesWithTTL"
    /\ last.status.code # DB_SUCCESS
    /\ \E i, j \in DOMAIN files :
          /\ files[i].file_type_ = "TO_DELETE"
          /\ files[i].file_id_ \notin blobs
          /\ files[j].file_type_ = "BACKUP"
          /\ files[j].file_id_ \in blobs
          /\ files[j].updated_time_ <= files[i].updated_time_

\* C38: DiscardFiles(to_discard_size) returns for every to_discard_size and every catalog:
\* its recursion reaches a call with to_discard_size <= 0, also when to_discard_size is
\* more than the files that are not TO_DELETE hold together and when files have size 0.
C38_DiscardFilesReturns ==
    \A to_discard_size \in {1, Size(files, FALSE), Size(files, FALSE) + 1} \cup FileSizes :
        DiscardFiles(files, to_discard_size, "none").returns

====
